---- MODULE Spec2Model ----
(***************************************************************************)
(* A model of SearchBot: the ingestion path (storeMessage, StoreMessage,    *)
(* IndexMessage), the /ask handler (HandleAskCommand with its cleaning,    *)
(* parsing, keyword fallback and rendering) and the conversation grouper   *)
(* (groupMessagesByContext).                                               *)
(*                                                                         *)
(* A Go string is modelled as a sequence of bytes; a byte is a one-element *)
(* TLA+ string naming it ("a", "{", ...).  The bytes that cannot be       *)
(* written inside a TLA+ string literal carry a name: DQ is the double     *)
(* quote, LF the line feed, CR the carriage return, TAB the tabulator,     *)
(* SP the space, BT the backtick and SQ the single quote.                  *)
(***************************************************************************)
EXTENDS Integers, Sequences, FiniteSets, TLC

DQ == "DQ"
LF == "LF"
CR == "CR"
TAB == "TAB"
SP == "SP"
BT == "BT"
SQ == "SQ"

(***************************************************************************)
(* strings package                                                         *)
(***************************************************************************)

\* unicode.IsSpace on the bytes of the model.
IsSpace(b) == b \in {SP, LF, CR, TAB}

Max(a, b) == IF a >= b THEN a ELSE b

Min(a, b) == IF a <= b THEN a ELSE b

\* strings.TrimSpace: drops the leading and the trailing white space.
TrimLeft(s) ==
  LET n == CHOOSE k \in 0..Len(s) :
             /\ \A j \in 1..k : IsSpace(s[j])
             /\ k = Len(s) \/ ~IsSpace(s[k + 1])
  IN  SubSeq(s, n + 1, Len(s))

TrimRight(s) ==
  LET n == CHOOSE k \in 0..Len(s) :
             /\ \A j \in 1..k : IsSpace(s[Len(s) - j + 1])
             /\ k = Len(s) \/ ~IsSpace(s[Len(s) - k])
  IN  SubSeq(s, 1, Len(s) - n)

TrimSpace(s) == TrimRight(TrimLeft(s))

\* strings.HasPrefix.
HasPrefix(s, pat) ==
  Len(pat) <= Len(s) /\ SubSeq(s, 1, Len(pat)) = pat

\* strings.HasSuffix.
HasSuffix(s, pat) ==
  Len(pat) <= Len(s) /\ SubSeq(s, Len(s) - Len(pat) + 1, Len(s)) = pat

\* strings.ReplaceAll(s, pat, ""): the non-overlapping occurrences of the
\* non-empty pat are removed, found from left to right.
RECURSIVE RemoveAll(_, _)
RemoveAll(s, pat) ==
  LET hits == {i \in 1..(Len(s) - Len(pat) + 1) : SubSeq(s, i, i + Len(pat) - 1) = pat}
      at == CHOOSE i \in hits : \A j \in hits : i <= j
  IN  IF hits = {} THEN s
      ELSE SubSeq(s, 1, at - 1) \o RemoveAll(SubSeq(s, at + Len(pat), Len(s)), pat)

\* strings.Index for a one-byte pattern; 0 stands for the -1 of Go.
Index(s, b) ==
  IF \E i \in 1..Len(s) : s[i] = b
  THEN CHOOSE i \in 1..Len(s) : s[i] = b /\ \A j \in 1..(i - 1) : s[j] # b
  ELSE 0

\* strings.LastIndex for a one-byte pattern; 0 stands for the -1 of Go.
LastIndex(s, b) ==
  IF \E i \in 1..Len(s) : s[i] = b
  THEN Len(s) - (CHOOSE d \in 0..(Len(s) - 1) :
                   s[Len(s) - d] = b /\ \A e \in 0..(d - 1) : s[Len(s) - e] # b)
  ELSE 0

\* strings.Contains.
Contains(s, pat) ==
  \E i \in 0..(Len(s) - Len(pat)) : SubSeq(s, i + 1, i + Len(pat)) = pat

(***************************************************************************)
(* cleanJSONResponse                                                       *)
(***************************************************************************)

FenceJSON == <<BT, BT, BT, "j", "s", "o", "n">>

Fence == <<BT, BT, BT>>

StripFormatting(response) ==
  RemoveAll(RemoveAll(RemoveAll(RemoveAll(RemoveAll(RemoveAll(
    TrimSpace(response), FenceJSON), Fence), <<BT>>), <<LF>>), <<CR>>), <<TAB>>)

\* A variant that cuts at the first closing brace instead of the last.
ExtractBracesFirstClose(response) ==
  LET start == Index(response, "{")
      end == Index(response, "}")
  IN  IF start # 0 /\ end # 0 /\ end > start
      THEN SubSeq(response, start, end)
      ELSE response

\* The span from the first opening brace to the last closing brace.
ExtractBraces(response) ==
  LET start == Index(response, "{")
      end == LastIndex(response, "}")
  IN  IF start # 0 /\ end # 0 /\ end > start
      THEN SubSeq(response, start, end)
      ELSE response

cleanJSONResponse(response) ==
  TrimSpace(ExtractBraces(StripFormatting(response)))

(***************************************************************************)
(* encoding/json: json.Unmarshal into the result struct of the handler,    *)
(* on the fragment of JSON the model uses: an object whose values are      *)
(* strings (without escapes) or arrays of strings, white space allowed     *)
(* between the tokens.                                                     *)
(***************************************************************************)

KeyRelevant ==
  <<"r", "e", "l", "e", "v", "a", "n", "t", "_", "m", "e", "s", "s", "a", "g", "e", "s">>

KeyExplanation == <<"e", "x", "p", "l", "a", "n", "a", "t", "i", "o", "n">>

ParseFail == [ok |-> FALSE, val |-> <<>>, rest |-> <<>>]

\* A string token whose bytes after the opening quote are r and whose
\* closing quote is at place j of r, 0 when there is none; a raw control
\* character inside it is a syntax error.
ParseStrClosed(r, j) ==
  IF j = 0 \/ \E i \in 1..(j - 1) : r[i] \in {LF, CR, TAB} THEN ParseFail
  ELSE [ok |-> TRUE, val |-> SubSeq(r, 1, j - 1), rest |-> SubSeq(r, j + 1, Len(r))]

\* A string token: from a double quote to the next one.
ParseStr(s) ==
  IF s = <<>> \/ Head(s) # DQ THEN ParseFail
  ELSE ParseStrClosed(Tail(s), Index(Tail(s), DQ))

\* The elements of an array after its opening bracket: s starts an element,
\* e is that element as parsed and t what follows it.
RECURSIVE ParseElems(_, _)
ParseElemsNext(e, t, acc) ==
  IF ~e.ok \/ t = <<>> THEN ParseFail
  ELSE IF Head(t) = "," THEN ParseElems(TrimLeft(Tail(t)), Append(acc, e.val))
  ELSE IF Head(t) = "]" THEN [ok |-> TRUE, val |-> Append(acc, e.val), rest |-> Tail(t)]
  ELSE ParseFail

ParseElemsFrom(e, acc) == ParseElemsNext(e, TrimLeft(e.rest), acc)

ParseElems(s, acc) == ParseElemsFrom(ParseStr(s), acc)

\* An array whose bytes after the opening bracket and the white space are t.
ParseArrFrom(t) ==
  IF t = <<>> THEN ParseFail
  ELSE IF Head(t) = "]" THEN [ok |-> TRUE, val |-> <<>>, rest |-> Tail(t)]
  ELSE ParseElems(t, <<>>)

ParseArr(s) == ParseArrFrom(TrimLeft(Tail(s)))

ParsedAs(kind, r) == [ok |-> r.ok, kind |-> kind, val |-> r.val, rest |-> r.rest]

\* A value: a string or an array of strings, told apart by its first byte.
ParseValue(s) ==
  IF s = <<>> THEN ParsedAs("none", ParseFail)
  ELSE IF Head(s) = DQ THEN ParsedAs("string", ParseStr(s))
  ELSE IF Head(s) = "[" THEN ParsedAs("array", ParseArr(s))
  ELSE ParsedAs("none", ParseFail)

\* The members of an object after its opening brace: s starts a key; k is
\* that key as parsed, c what follows it, v the value and t what follows.
RECURSIVE ParseMembers(_, _)
ParseMembersNext(k, v, t, acc) ==
  IF ~v.ok \/ t = <<>> THEN ParseFail
  ELSE IF Head(t) = ","
  THEN ParseMembers(TrimLeft(Tail(t)),
                    Append(acc, [key |-> k.val, kind |-> v.kind, val |-> v.val]))
  ELSE IF Head(t) = "}"
  THEN [ok |-> TRUE, val |-> Append(acc, [key |-> k.val, kind |-> v.kind, val |-> v.val]),
        rest |-> Tail(t)]
  ELSE ParseFail

ParseMembersValue(k, v, acc) == ParseMembersNext(k, v, TrimLeft(v.rest), acc)

ParseMembersColon(k, c, acc) ==
  IF ~k.ok \/ c = <<>> \/ Head(c) # ":" THEN ParseFail
  ELSE ParseMembersValue(k, ParseValue(TrimLeft(Tail(c))), acc)

ParseMembersKey(k, acc) == ParseMembersColon(k, TrimLeft(k.rest), acc)

ParseMembers(s, acc) == ParseMembersKey(ParseStr(s), acc)

\* The whole input must be one object; data after it is a syntax error.
ParseObjectEnd(r) == IF r.ok /\ TrimLeft(r.rest) = <<>> THEN r ELSE ParseFail

ParseObjectBody(b) ==
  IF b = <<>> THEN ParseFail
  ELSE IF Head(b) = "}" THEN ParseObjectEnd([ok |-> TRUE, val |-> <<>>, rest |-> Tail(b)])
  ELSE ParseObjectEnd(ParseMembers(b, <<>>))

ParseObjectFrom(t) ==
  IF t = <<>> \/ Head(t) # "{" THEN ParseFail ELSE ParseObjectBody(TrimLeft(Tail(t)))

ParseObject(s) == ParseObjectFrom(TrimLeft(s))

\* The decoding of one member into the struct field it names: a member of
\* the wrong type leaves its field alone and makes Unmarshal return an error
\* after the other members are decoded; unknown keys are skipped.
DecodeMember(m, acc) ==
  IF m.key = KeyRelevant
  THEN IF m.kind = "array"
       THEN [acc EXCEPT !.RelevantMessages = m.val]
       ELSE [acc EXCEPT !.err = TRUE]
  ELSE IF m.key = KeyExplanation
  THEN IF m.kind = "string"
       THEN [acc EXCEPT !.Explanation = m.val]
       ELSE [acc EXCEPT !.err = TRUE]
  ELSE acc

\* The members are decoded in input order.
RECURSIVE DecodeMembers(_, _)
DecodeMembers(ms, acc) ==
  IF ms = <<>> THEN acc ELSE DecodeMembers(Tail(ms), DecodeMember(Head(ms), acc))

\* The struct before decoding.
ZeroResult == [err |-> FALSE, RelevantMessages |-> <<>>, Explanation |-> <<>>]

DecodeObject(p) ==
  IF ~p.ok THEN [ZeroResult EXCEPT !.err = TRUE] ELSE DecodeMembers(p.val, ZeroResult)

\* json.Unmarshal([]byte(analysis), &result): a syntax error decodes nothing.
Unmarshal(analysis) == DecodeObject(ParseObject(analysis))

(***************************************************************************)
(* Text heuristics of the grouper and of the keyword fallback              *)
(***************************************************************************)

Uppers ==
  <<"A", "B", "C", "D", "E", "F", "G", "H", "I", "J", "K", "L", "M",
    "N", "O", "P", "Q", "R", "S", "T", "U", "V", "W", "X", "Y", "Z">>

Lowers ==
  <<"a", "b", "c", "d", "e", "f", "g", "h", "i", "j", "k", "l", "m",
    "n", "o", "p", "q", "r", "s", "t", "u", "v", "w", "x", "y", "z">>

ToLowerByte(b) ==
  IF \E i \in 1..Len(Uppers) : Uppers[i] = b
  THEN Lowers[CHOOSE i \in 1..Len(Uppers) : Uppers[i] = b]
  ELSE b

\* strings.ToLower.
ToLower(s) == [i \in 1..Len(s) |-> ToLowerByte(s[i])]

\* strings.Fields: the maximal runs of bytes that are not white space.
Fields(s) ==
  LET starts == {i \in 1..Len(s) : ~IsSpace(s[i]) /\ (i = 1 \/ IsSpace(s[i - 1]))}
      EndOf(i) == CHOOSE j \in i..Len(s) :
                    /\ \A k \in i..j : ~IsSpace(s[k])
                    /\ j = Len(s) \/ IsSpace(s[j + 1])
      Nth(k) == CHOOSE i \in starts : Cardinality({j \in starts : j <= i}) = k
  IN  [k \in 1..Cardinality(starts) |-> SubSeq(s, Nth(k), EndOf(Nth(k)))]

\* The cutset of strings.Trim in extractSignificantTerms.
Cutset == {".", ",", "!", "?", "(", ")", "[", "]", "{", "}", ":", ";", DQ, SQ}

RECURSIVE TrimCutLeft(_)
TrimCutLeft(w) ==
  IF w # <<>> /\ Head(w) \in Cutset THEN TrimCutLeft(Tail(w)) ELSE w

RECURSIVE TrimCutRight(_)
TrimCutRight(w) ==
  IF w # <<>> /\ w[Len(w)] \in Cutset THEN TrimCutRight(SubSeq(w, 1, Len(w) - 1)) ELSE w

\* strings.Trim(word, cutset).
Trim(w) == TrimCutRight(TrimCutLeft(w))

commonWords ==
  {<<"t", "h", "e">>, <<"b", "e">>, <<"t", "o">>, <<"o", "f">>, <<"a", "n", "d">>, <<"a">>,
   <<"i", "n">>, <<"t", "h", "a", "t">>, <<"h", "a", "v", "e">>, <<"i">>, <<"i", "t">>,
   <<"f", "o", "r">>, <<"n", "o", "t">>, <<"o", "n">>, <<"w", "i", "t", "h">>, <<"h", "e">>,
   <<"a", "s">>, <<"y", "o", "u">>, <<"d", "o">>, <<"a", "t">>, <<"t", "h", "i", "s">>,
   <<"b", "u", "t">>, <<"h", "i", "s">>, <<"b", "y">>, <<"f", "r", "o", "m">>,
   <<"t", "h", "e", "y">>, <<"w", "e">>, <<"s", "a", "y">>, <<"h", "e", "r">>,
   <<"s", "h", "e">>, <<"o", "r">>, <<"a", "n">>, <<"w", "i", "l", "l">>, <<"m", "y">>,
   <<"o", "n", "e">>, <<"a", "l", "l">>, <<"w", "o", "u", "l", "d">>,
   <<"t", "h", "e", "r", "e">>, <<"t", "h", "e", "i", "r">>, <<"w", "h", "a", "t">>,
   <<"w", "a", "s">>, <<"w", "e", "r", "e">>, <<"b", "e", "e", "n">>,
   <<"b", "e", "i", "n", "g">>, <<"i", "n", "t", "o">>, <<"w", "h", "o">>,
   <<"w", "h", "o", "m">>, <<"w", "h", "o", "s", "e">>, <<"w", "h", "i", "c", "h">>,
   <<"w", "h", "e", "r", "e">>, <<"w", "h", "e", "n">>, <<"w", "h", "y">>, <<"h", "o", "w">>,
   <<"a", "n", "y">>, <<"s", "o", "m", "e">>, <<"c", "a", "n">>, <<"c", "o", "u", "l", "d">>,
   <<"m", "a", "y">>, <<"m", "i", "g", "h", "t">>, <<"m", "u", "s", "t">>,
   <<"s", "h", "a", "l", "l">>, <<"s", "h", "o", "u", "l", "d">>, <<"a", "b", "o", "u", "t">>,
   <<"m", "a", "n", "y">>, <<"m", "o", "s", "t">>, <<"o", "t", "h", "e", "r">>,
   <<"s", "u", "c", "h">>, <<"t", "h", "a", "n">>, <<"t", "h", "e", "n">>,
   <<"t", "h", "e", "s", "e">>, <<"t", "h", "o", "s", "e">>, <<"o", "n", "l", "y">>,
   <<"v", "e", "r", "y">>, <<"a", "l", "s", "o">>, <<"j", "u", "s", "t">>,
   <<"k", "n", "o", "w">>, <<"l", "i", "k", "e">>, <<"t", "i", "m", "e">>,
   <<"m", "a", "k", "e">>, <<"s", "e", "e">>, <<"f", "i", "n", "d">>, <<"w", "a", "n", "t">>,
   <<"d", "o", "e", "s">>, <<"n", "e", "e", "d">>, <<"g", "o", "i", "n", "g">>,
   <<"a", "f", "t", "e", "r">>, <<"a", "g", "a", "i", "n">>, <<"o", "u", "r">>,
   <<"w", "e", "l", "l">>, <<"w", "a", "y">>, <<"e", "v", "e", "n">>, <<"n", "e", "w">>,
   <<"b", "e", "c", "a", "u", "s", "e">>, <<"g", "i", "v", "e">>, <<"d", "a", "y">>,
   <<"a", "n", "y", "o", "n", "e">>, <<"a", "n", "y", "b", "o", "d", "y">>,
   <<"a", "n", "y", "t", "h", "i", "n", "g">>, <<"e", "v", "e", "r", "y", "o", "n", "e">>,
   <<"e", "v", "e", "r", "y", "b", "o", "d", "y">>,
   <<"e", "v", "e", "r", "y", "t", "h", "i", "n", "g">>, <<"s", "o", "m", "e", "o", "n", "e">>,
   <<"s", "o", "m", "e", "b", "o", "d", "y">>, <<"s", "o", "m", "e", "t", "h", "i", "n", "g">>,
   <<"n", "o", "t", "h", "i", "n", "g">>, <<"n", "o", "b", "o", "d", "y">>,
   <<"n", "o", "n", "e">>}

isCommonWord(word) == ToLower(word) \in commonWords

\* The words kept as terms: longer than 3 bytes and not common.
RECURSIVE SignificantOf(_)
SignificantOf(words) ==
  IF words = <<>> THEN <<>>
  ELSE LET word == Trim(Head(words))
       IN  IF Len(word) > 3 /\ ~isCommonWord(word)
           THEN <<word>> \o SignificantOf(Tail(words))
           ELSE SignificantOf(Tail(words))

extractSignificantTerms(text) == SignificantOf(Fields(ToLower(text)))

Range(s) == {s[i] : i \in 1..Len(s)}

hasCommonTerms(terms1, terms2) ==
  \E term \in Range(terms2) :
    \/ term \in Range(terms1)
    \/ \E term1 \in Range(terms1) :
         /\ Len(term1) > 3 /\ Len(term) > 3
         /\ (Contains(term1, term) \/ Contains(term, term1))

\* A reply check that knows the short answer to a question only.
isDirectReplyToQuestion(prevText, currText) ==
  HasSuffix(ToLower(prevText), <<"?">>) /\ Len(Fields(ToLower(currText))) < 5

isDirectReply(prevText, currText) ==
  LET prev == ToLower(prevText)
      curr == ToLower(currText)
      significantPrevWords ==
        {w \in Range(Fields(prev)) : Len(w) > 3 /\ ~isCommonWord(w)}
  IN  \/ HasSuffix(prev, <<"?">>) /\ Len(Fields(curr)) < 5
      \/ \E currWord \in Range(Fields(curr)) : \E prevWord \in significantPrevWords :
           Contains(ToLower(currWord), ToLower(prevWord))


(***************************************************************************)
(* groupMessagesByContext                                                  *)
(***************************************************************************)

\* const conversationTimeout = 2 * time.Minute, in seconds.
conversationTimeout == 120

\* All the arrangements of the sequence s.
Arrangements(s) ==
  {[i \in 1..Len(s) |-> s[f[i]]] :
     f \in {g \in [1..Len(s) -> 1..Len(s)] : \A i, j \in 1..Len(s) : i # j => g[i] # g[j]}}

\* Time.Before on the creation times of two messages: a time.Time is the
\* second CreatedAt and the nanosecond CreatedAtNsec within it.
Before(a, b) ==
  \/ a.CreatedAt < b.CreatedAt
  \/ (a.CreatedAt = b.CreatedAt /\ a.CreatedAtNsec < b.CreatedAtNsec)

IsSortedByTime(s) ==
  \A i \in 1..(Len(s) - 1) : ~Before(s[i + 1], s[i])

\* sort.Slice moves one element down to its place: the inner loop of the
\* insertion sort, for j = i; j > a && less(j, j-1); j-- { swap(j, j-1) }.
RECURSIVE InsertDown(_, _)
InsertDown(s, j) ==
  IF j > 1 /\ Before(s[j], s[j - 1])
  THEN InsertDown([s EXCEPT ![j] = s[j - 1], ![j - 1] = s[j]], j - 1)
  ELSE s

RECURSIVE InsertionSortFrom(_, _)
InsertionSortFrom(s, i) ==
  IF i > Len(s) THEN s ELSE InsertionSortFrom(InsertDown(s, i), i + 1)

\* A variant that leaves the slice in the order it came.
SortByTimeUnsorted(messages) == messages

\* sort.Slice(messages, less) with less = CreatedAt.Before.  On a slice of
\* at most 12 elements the library runs an insertion sort, which the bound
\* on the length of the slices of the model keeps it to.
SortByTime(messages) == InsertionSortFrom(messages, 2)

\* A time proximity check that never holds.
WithinTimeoutNever(prev, curr) == FALSE

\* timeDiff <= conversationTimeout, timeDiff being curr.CreatedAt.Sub(prev.CreatedAt).
WithinTimeout(prev, curr) ==
  \/ curr.CreatedAt - prev.CreatedAt < conversationTimeout
  \/ (/\ curr.CreatedAt - prev.CreatedAt = conversationTimeout
      /\ curr.CreatedAtNsec <= prev.CreatedAtNsec)

isRelated(prev, curr) ==
  \/ WithinTimeout(prev, curr)
  \/ isDirectReply(prev.Text, curr.Text)
  \/ hasCommonTerms(extractSignificantTerms(prev.Text), extractSignificantTerms(curr.Text))

\* The loop over messages[1..]: i is the index of the current message.
RECURSIVE GroupLoop(_, _, _, _)
GroupLoop(messages, i, conversations, currentConvo) ==
  IF i > Len(messages)
  THEN IF Len(currentConvo) > 0 THEN Append(conversations, currentConvo) ELSE conversations
  ELSE IF isRelated(messages[i - 1], messages[i])
  THEN GroupLoop(messages, i + 1, conversations, Append(currentConvo, messages[i]))
  ELSE GroupLoop(messages, i + 1,
                 IF Len(currentConvo) > 0 THEN Append(conversations, currentConvo)
                 ELSE conversations,
                 <<messages[i]>>)

\* A grouping that does not append the conversation still open at the end.
GroupSortedOpenEnd(sorted) ==
  IF Len(sorted) = 0 THEN <<>>
  ELSE LET all == GroupLoop(sorted, 2, <<>>, <<sorted[1]>>)
       IN  SubSeq(all, 1, Len(all) - 1)

\* The grouping of a slice that the sort has left in the order sorted.
GroupSorted(sorted) ==
  IF Len(sorted) = 0 THEN <<>> ELSE GroupLoop(sorted, 2, <<>>, <<sorted[1]>>)

groupMessagesByContext(messages) == GroupSorted(SortByTime(messages))


(***************************************************************************)
(* int64 chat ids and their decimal text.  A chat id is wider than the     *)
(* integers of the model checker, so it is kept as a sign and two decimal  *)
(* parts: its value is (neg: -1, else 1) * (hi * 10^9 + lo), lo < 10^9.    *)
(***************************************************************************)

Int64(neg, hi, lo) == [neg |-> neg, hi |-> hi, lo |-> lo]

DecimalDigits == <<"0", "1", "2", "3", "4", "5", "6", "7", "8", "9">>

\* The decimal text of a natural number, as the verb %d writes it.
RECURSIVE Itoa(_)
Itoa(n) ==
  IF n < 10 THEN <<DecimalDigits[n + 1]>>
  ELSE Itoa(n \div 10) \o <<DecimalDigits[(n % 10) + 1]>>

\* The decimal text of n in exactly w digits, zeros first.
RECURSIVE ZeroPad(_, _)
ZeroPad(n, w) ==
  IF w = 0 THEN <<>> ELSE ZeroPad(n \div 10, w - 1) \o <<DecimalDigits[(n % 10) + 1]>>

\* fmt.Sprintf("%d", chatID).
FormatInt64(c) ==
  (IF c.neg THEN <<"-">> ELSE <<>>)
  \o (IF c.hi = 0 THEN Itoa(c.lo) ELSE Itoa(c.hi) \o ZeroPad(c.lo, 9))

(***************************************************************************)
(* The texts of the model: what the users write and what the bot answers   *)
(***************************************************************************)

TextQuestion ==
  <<"a", "n", "y", SP, "D", "o", "c", "k", "e", "r", "?">>

TextYes ==
  <<"y", "e", "s">>

TextDockerfile ==
  <<"t", "h", "e", SP, "D", "o", "c", "k", "e", "r", "f", "i", "l", "e", SP, "i", "s", SP,
    "n", "o", "t", SP, "h", "e", "r", "e">>

\* A word of four bytes of which the punctuation trim leaves two.
TextOk ==
  <<"o", "k", "!", "!">>

\* A media-only message has no text.
TextEmpty == <<>>

HandleAl ==
  <<"a", "l">>

HandleBo ==
  <<"b", "o">>

AdminMessage ==
  <<"xE2", "x9A", "xA0", "xEF", "xB8", "x8F", SP, "I", SP, "n", "e", "e", "d", SP, "t",
    "o", SP, "b", "e", SP, "a", "n", SP, "a", "d", "m", "i", "n", "i", "s", "t", "r", "a",
    "t", "o", "r", SP, "t", "o", SP, "a", "c", "c", "e", "s", "s", SP, "m", "e", "s", "s",
    "a", "g", "e", SP, "h", "i", "s", "t", "o", "r", "y", ".", LF, "P", "l", "e", "a", "s",
    "e", SP, "m", "a", "k", "e", SP, "m", "e", SP, "a", "n", SP, "a", "d", "m", "i", "n",
    "i", "s", "t", "r", "a", "t", "o", "r", SP, "w", "i", "t", "h", SP, "t", "h", "e", "s",
    "e", SP, "p", "e", "r", "m", "i", "s", "s", "i", "o", "n", "s", ":", LF, "-", SP, "R",
    "e", "a", "d", SP, "M", "e", "s", "s", "a", "g", "e", "s", LF, "-", SP, "S", "e", "n",
    "d", SP, "M", "e", "s", "s", "a", "g", "e", "s">>

ProvideQuestionMessage ==
  <<"P", "l", "e", "a", "s", "e", SP, "p", "r", "o", "v", "i", "d", "e", SP, "a", SP, "q",
    "u", "e", "s", "t", "i", "o", "n", SP, "a", "f", "t", "e", "r", SP, "/", "a", "s", "k">>

NoMessagesMessage ==
  <<"I", SP, "d", "o", "n", SQ, "t", SP, "h", "a", "v", "e", SP, "a", "n", "y", SP, "m",
    "e", "s", "s", "a", "g", "e", "s", SP, "i", "n", SP, "m", "y", SP, "d", "a", "t", "a",
    "b", "a", "s", "e", SP, "y", "e", "t", ".", SP, "T", "h", "i", "s", SP, "c", "o", "u",
    "l", "d", SP, "b", "e", SP, "b", "e", "c", "a", "u", "s", "e", ":", LF, "1", ".", SP,
    "I", SP, "w", "a", "s", SP, "j", "u", "s", "t", SP, "a", "d", "d", "e", "d", SP, "t",
    "o", SP, "t", "h", "e", SP, "g", "r", "o", "u", "p", LF, "2", ".", SP, "I", SP, "d",
    "o", "n", SQ, "t", SP, "h", "a", "v", "e", SP, "a", "c", "c", "e", "s", "s", SP, "t",
    "o", SP, "r", "e", "a", "d", SP, "m", "e", "s", "s", "a", "g", "e", "s", LF, "P", "l",
    "e", "a", "s", "e", SP, "m", "a", "k", "e", SP, "s", "u", "r", "e", SP, "I", SQ, "m",
    SP, "a", "n", SP, "a", "d", "m", "i", "n", "i", "s", "t", "r", "a", "t", "o", "r", SP,
    "w", "i", "t", "h", SP, "m", "e", "s", "s", "a", "g", "e", SP, "a", "c", "c", "e", "s",
    "s", SP, "a", "n", "d", SP, "w", "a", "i", "t", SP, "f", "o", "r", SP, "n", "e", "w",
    SP, "m", "e", "s", "s", "a", "g", "e", "s", SP, "t", "o", SP, "b", "e", SP, "i", "n",
    "d", "e", "x", "e", "d", ".">>

NothingFoundMessage ==
  <<"I", SP, "c", "o", "u", "l", "d", "n", SQ, "t", SP, "f", "i", "n", "d", SP, "a", "n",
    "y", SP, "r", "e", "l", "e", "v", "a", "n", "t", SP, "d", "i", "s", "c", "u", "s", "s",
    "i", "o", "n", "s", SP, "a", "b", "o", "u", "t", SP, "t", "h", "i", "s", SP, "t", "o",
    "p", "i", "c", SP, "i", "n", SP, "o", "u", "r", SP, "c", "h", "a", "t", SP, "h", "i",
    "s", "t", "o", "r", "y", ".", SP, "Y", "o", "u", SP, "m", "i", "g", "h", "t", SP, "b",
    "e", SP, "t", "h", "e", SP, "f", "i", "r", "s", "t", SP, "o", "n", "e", SP, "t", "o",
    SP, "b", "r", "i", "n", "g", SP, "t", "h", "i", "s", SP, "u", "p", "!">>

FallbackExplanation ==
  <<"F", "o", "u", "n", "d", SP, "s", "o", "m", "e", SP, "m", "e", "s", "s", "a", "g", "e",
    "s", SP, "t", "h", "a", "t", SP, "m", "i", "g", "h", "t", SP, "b", "e", SP, "r", "e",
    "l", "e", "v", "a", "n", "t", SP, "t", "o", SP, "y", "o", "u", "r", SP, "q", "u", "e",
    "s", "t", "i", "o", "n", ".">>

DiscussionsHeader ==
  <<LF, LF, "H", "e", "r", "e", SP, "a", "r", "e", SP, "t", "h", "e", SP, "r", "e", "l",
    "e", "v", "a", "n", "t", SP, "d", "i", "s", "c", "u", "s", "s", "i", "o", "n", "s",
    ":", LF, LF>>

TipText ==
  <<LF, "T", "i", "p", ":", SP, "C", "l", "i", "c", "k", SP, "o", "n", SP, "a", "n", "y",
    SP, "m", "e", "s", "s", "a", "g", "e", SP, "t", "o", SP, "j", "u", "m", "p", SP, "t",
    "o", SP, "t", "h", "a", "t", SP, "p", "a", "r", "t", SP, "o", "f", SP, "t", "h", "e",
    SP, "c", "h", "a", "t", SP, "h", "i", "s", "t", "o", "r", "y", ".", SP, "(", "M", "a",
    "k", "e", SP, "s", "u", "r", "e", SP, "I", SQ, "m", SP, "a", "n", SP, "a", "d", "m",
    "i", "n", "i", "s", "t", "r", "a", "t", "o", "r", SP, "t", "o", SP, "a", "c", "c", "e",
    "s", "s", SP, "m", "e", "s", "s", "a", "g", "e", SP, "h", "i", "s", "t", "o", "r", "y",
    ")">>

LinkPrefix ==
  <<"h", "t", "t", "p", "s", ":", "/", "/", "t", ".", "m", "e", "/", "c", "/">>

AskCommand ==
  <<"/", "a", "s", "k">>

(***************************************************************************)
(* The completion model: what it can answer.  The prompt asks for a raw    *)
(* JSON object {"relevant_messages":[...],"explanation":"..."}; the model  *)
(* is free to wrap it in a fence or in prose, or to answer anything else.  *)
(***************************************************************************)

SeqsUpTo(S, n) == UNION {[1..k -> S] : k \in 0..n}

EncodeString(v) == <<DQ>> \o v \o <<DQ>>

RECURSIVE EncodeElems(_)
EncodeElems(lines) ==
  IF lines = <<>> THEN <<>>
  ELSE IF Len(lines) = 1 THEN EncodeString(Head(lines))
  ELSE EncodeString(Head(lines)) \o <<",">> \o EncodeElems(Tail(lines))

\* The object as text; pretty puts each member on a line of its own.
EncodeResult(rel, expl, pretty) ==
  LET nl == IF pretty THEN <<LF, TAB>> ELSE <<>>
      end == IF pretty THEN <<LF>> ELSE <<>>
  IN  <<"{">> \o nl \o EncodeString(KeyRelevant) \o <<":">> \o <<"[">> \o EncodeElems(rel) \o <<"]">>
      \o <<",">> \o nl \o EncodeString(KeyExplanation) \o <<":">>
      \o (IF pretty THEN <<SP>> ELSE <<>>) \o EncodeString(expl) \o end \o <<"}">>

WrapKinds == {"raw", "fence_json", "fence", "lead", "trail"}

PlainProse == <<"S", "u", "r", "e", ":", SP>>

BraceProse == <<"s", "e", "e", SP, "{", "x", "}", SP>>

Proses == {PlainProse, BraceProse}

\* The object wrapped the way the completion model wraps its answers.
WrapOutput(wrap, prose, obj) ==
  CASE wrap = "raw" -> obj
    [] wrap = "fence_json" -> FenceJSON \o <<LF>> \o obj \o <<LF>> \o Fence
    [] wrap = "fence" -> Fence \o <<LF>> \o obj \o <<LF>> \o Fence \o <<LF>>
    [] wrap = "lead" -> prose \o obj
    [] wrap = "trail" -> obj \o <<SP>> \o prose

(***************************************************************************)
(* State                                                                   *)
(***************************************************************************)

VARIABLES
  cleanCase,       \* the object the completion model meant and how it wrapped it
  cleanIn,         \* response: the raw output handed to cleanJSONResponse
  cleanOut,        \* what cleanJSONResponse returned
  cleanPc,         \* "start" before the call, "done" after it
  groupIn,         \* messages: the slice handed to groupMessagesByContext
  groupSortedIn,   \* the same messages, handed over in ascending order of time
  groupOut,        \* the conversations returned for groupIn
  groupOutSorted,  \* the conversations returned for groupSortedIn
  groupPc,         \* "start" before the calls, "done" after them
  store,           \* the documents of the message store, in insertion order
  index,           \* the documents of the search index, in insertion order
  now,             \* the wall clock, in seconds
  nUpdates,        \* how many updates the consumer has taken from the channel
  backfill,        \* the history-backfill goroutine: its messages still to store
  last,            \* what the step just taken received and what it returned
  ask,             \* the /ask command just handled: message, outcomes, result
  meili,           \* the search engine: the index, its settings, its task queue
  callers,         \* the callers of NewMeiliSearch: where each one stands
  inflight,        \* the calls of storeMessage under way, one per goroutine
  retr,            \* the retrieval just run: the engine's response, its outcome
  indexing         \* the call of IndexMessage under way: its task, what it returned

cleanVars == <<cleanCase, cleanIn, cleanOut, cleanPc>>

groupVars == <<groupIn, groupSortedIn, groupOut, groupOutSorted, groupPc>>

ingestVars == <<store, index, now, nUpdates, backfill, last>>

configVars == <<meili, callers>>

vars == <<cleanVars, groupVars, ingestVars, ask, configVars, inflight, retr, indexing>>

\* A time.Time: the second (its Unix()) and the nanosecond within it.
Time(sec, nsec) == [sec |-> sec, nsec |-> nsec]

\* models.Message with a creation time on a whole second.
Message(id, chat, user, text, at) ==
  [MessageID |-> id, ChatID |-> chat, UserID |-> user.UserID, Username |-> user.Username,
   Text |-> text, CreatedAt |-> at, CreatedAtNsec |-> 0]

UserAl == [UserID |-> 1, Username |-> HandleAl]

UserBo == [UserID |-> 2, Username |-> HandleBo]

\* A supergroup: its id has the form -100<N>, here -1000000000007.
SuperChat == Int64(TRUE, 1000, 7)

\* A basic group whose id, -1005, starts with the digits 100 as well.
BasicChat == Int64(TRUE, 0, 1005)

(***************************************************************************)
(* The message store (MongoDB) and the search index (Meilisearch)          *)
(***************************************************************************)

CollectionPrefix ==
  <<"m", "e", "s", "s", "a", "g", "e", "s", "_", "g", "r", "o", "u", "p", "_">>

\* The collection of a group: fmt.Sprintf("%s_group_%d", base, chatID).
getGroupCollection(chatID) == CollectionPrefix \o FormatInt64(chatID)

\* The place of the first document that the filter {message_id, chat_id}
\* selects in the collection, 0 when it selects none.
FindStored(docs, collection, msg) ==
  LET hits == {i \in 1..Len(docs) :
                 /\ docs[i].collection = collection
                 /\ docs[i].doc.MessageID = msg.MessageID
                 /\ docs[i].doc.ChatID = msg.ChatID}
  IN  IF hits = {} THEN 0 ELSE CHOOSE i \in hits : \A j \in hits : i <= j

\* InsertOne: the message becomes one more document of its collection.
StoreMessageInsertOne(docs, msg) ==
  Append(docs, [collection |-> getGroupCollection(msg.ChatID), doc |-> msg])

\* MongoDB.StoreMessage without error: UpdateOne with $set and upsert.
StoreMessage(docs, msg) ==
  LET collection == getGroupCollection(msg.ChatID)
      at == FindStored(docs, collection, msg)
  IN  IF at = 0
      THEN Append(docs, [collection |-> collection, doc |-> msg])
      ELSE [docs EXCEPT ![at] = [collection |-> collection, doc |-> msg]]

\* The primary key of a document: fmt.Sprintf("%d-%d", ChatID, MessageID).
MessageUID(msg) == FormatInt64(msg.ChatID) \o <<"-">> \o Itoa(msg.MessageID)

\* A document whose chat_id is that of one chat, whatever the message.
DocumentOfOneChat(msg) ==
  [message_uid |-> MessageUID(msg), message_id |-> msg.MessageID, chat_id |-> SuperChat,
   user_id |-> msg.UserID, username |-> msg.Username, text |-> msg.Text,
   created_at |-> msg.CreatedAt]

\* The document IndexMessage builds; created_at is CreatedAt.Unix().
Document(msg) ==
  [message_uid |-> MessageUID(msg), message_id |-> msg.MessageID, chat_id |-> msg.ChatID,
   user_id |-> msg.UserID, username |-> msg.Username, text |-> msg.Text,
   created_at |-> msg.CreatedAt]

\* The place of the document with this primary key, 0 when there is none.
FindDocument(idx, uid) ==
  LET hits == {i \in 1..Len(idx) : idx[i].message_uid = uid}
  IN  IF hits = {} THEN 0 ELSE CHOOSE i \in hits : \A j \in hits : i <= j

\* The AddDocuments task once it succeeded: add or replace by primary key.
AddDocuments(idx, document) ==
  LET at == FindDocument(idx, document.message_uid)
  IN  IF at = 0 THEN Append(idx, document) ELSE [idx EXCEPT ![at] = document]

\* The errors of the model; ErrNil is the nil error.
ErrNil == "nil"

\* How the engine treats a write: failures is the number of consecutive
\* attempts that fail before one would succeed, kind is the step at which an
\* attempt fails ("add": AddDocuments returns an error, "wait": WaitForTask
\* returns an error, "status": the task ends with a status other than
\* succeeded), applied tells whether a task whose wait failed went through.
Engine(failures, kind, applied) == [failures |-> failures, kind |-> kind, applied |-> applied]

EngineOK == Engine(0, "none", TRUE)

\* MeiliSearch.IndexMessage: one AddDocuments, one WaitForTask, the status.
IndexMessage(idx, msg, engine) ==
  LET document == Document(msg)
  IN  IF engine.failures = 0
      THEN [index |-> AddDocuments(idx, document), err |-> ErrNil]
      ELSE CASE engine.kind = "add" -> [index |-> idx, err |-> "add"]
             [] engine.kind = "wait" ->
                  [index |-> IF engine.applied THEN AddDocuments(idx, document) ELSE idx,
                   err |-> "wait"]
             [] OTHER -> [index |-> idx, err |-> "indexing task failed"]

\* tgbotapi.Message, of which the program reads these fields.
TgMessage(id, chat, from, text) == [MessageID |-> id, Chat |-> chat, From |-> from, Text |-> text]

\* The model storeMessage builds, t being time.Now().
NewMessage(message, t) ==
  [Message(message.MessageID, message.Chat.ID, message.From, message.Text, t.sec)
     EXCEPT !.CreatedAtNsec = t.nsec]

\* storeMessage: build the model at time.Now(), store it, then index it.
storeMessage(docs, idx, message, t, storeFails, engine) ==
  LET msg == NewMessage(message, t)
  IN  IF storeFails
      THEN [store |-> docs, index |-> idx, err |-> "failed to store message"]
      ELSE LET r == IndexMessage(idx, msg, engine)
           IN  [store |-> StoreMessage(docs, msg), index |-> r.index, err |-> r.err]

\* Chat.IsGroup() || Chat.IsSuperGroup().
IsGroupChat(chat) == chat.Type = "group" \/ chat.Type = "supergroup"

RECURSIVE Reverse(_)
Reverse(s) == IF s = <<>> THEN <<>> ELSE Append(Reverse(Tail(s)), Head(s))

RECURSIVE SelectWithText(_)
SelectWithText(s) ==
  IF s = <<>> THEN <<>>
  ELSE (IF Head(s).Text # <<>> THEN <<Head(s)>> ELSE <<>>) \o SelectWithText(Tail(s))

\* Bot.GetChatHistory without error: the replies it could fetch, newest
\* first, of which it keeps the messages that have text.
GetChatHistory(recent) == SelectWithText(recent)

(***************************************************************************)
(* The retriever: SearchMessages(chatID, searchReq) as HandleAskCommand    *)
(* and handleCommand call it.  Which documents a group gets is taken from  *)
(* the specification of the retriever; the decoding of a hit is the code.  *)
(***************************************************************************)

\* A supergroup id is a value below -1,000,000,000,000.
IsSupergroupID(c) == c.neg /\ (c.hi > 1000 \/ (c.hi = 1000 /\ c.lo > 0))

\* legacyID = -1 * (supergroupID + 1,000,000,000,000), for a supergroup id.
LegacyID(c) == Int64(FALSE, c.hi - 1000, c.lo)

\* The group ids whose documents a search in the group probes.
ProbedIDs(chatID) ==
  IF IsSupergroupID(chatID) THEN {chatID, LegacyID(chatID)} ELSE {chatID}

\* Limit: 100 of the search request of /ask.
AskLimit == 100

\* The hits in descending order of created_at; hits of the same second keep
\* the order of the index.
RECURSIVE SortNewestFirst(_)
SortNewestFirst(hits) ==
  IF hits = <<>> THEN <<>>
  ELSE LET at == CHOOSE i \in 1..Len(hits) :
                   /\ \A j \in 1..Len(hits) : hits[j].created_at <= hits[i].created_at
                   /\ \A j \in 1..(i - 1) : hits[j].created_at < hits[i].created_at
       IN  <<hits[at]>>
           \o SortNewestFirst(SubSeq(hits, 1, at - 1) \o SubSeq(hits, at + 1, Len(hits)))

RECURSIVE SelectProbed(_, _)
SelectProbed(idx, ids) ==
  IF idx = <<>> THEN <<>>
  ELSE (IF Head(idx).chat_id \in ids THEN <<Head(idx)>> ELSE <<>>)
       \o SelectProbed(Tail(idx), ids)

\* The hits of the group: its documents and those of its pre-migration id,
\* newest first, at most limit of them.  The primary key of the index keeps
\* one document per identity key.
SearchHits(idx, chatID, limit) ==
  LET sorted == SortNewestFirst(SelectProbed(idx, ProbedIDs(chatID)))
  IN  SubSeq(sorted, 1, Min(limit, Len(sorted)))

\* The decoding of one hit into models.Message; CreatedAt is
\* time.Unix(created_at, 0).
DecodeHit(doc) ==
  Message(doc.message_id, doc.chat_id, [UserID |-> doc.user_id, Username |-> doc.username],
          doc.text, doc.created_at)

SearchMessages(idx, chatID, limit) ==
  LET hits == SearchHits(idx, chatID, limit)
  IN  [i \in 1..Len(hits) |-> DecodeHit(hits[i])]

(***************************************************************************)
(* HandleAskCommand                                                        *)
(***************************************************************************)

TrimPrefix(s, prefix) ==
  IF HasPrefix(s, prefix) THEN SubSeq(s, Len(prefix) + 1, Len(s)) ELSE s

\* fmt.Sprintf("@%s: %s", message.Username, message.Text).
MessageLine(message) == <<"@">> \o message.Username \o <<":", SP>> \o message.Text

\* The recovery of the handler: the lines of the messages that share a
\* significant term with the question.
RECURSIVE KeywordLines(_, _)
KeywordLines(keywords, messages) ==
  IF messages = <<>> THEN <<>>
  ELSE (IF hasCommonTerms(keywords, extractSignificantTerms(Head(messages).Text))
        THEN <<MessageLine(Head(messages))>> ELSE <<>>)
       \o KeywordLines(keywords, Tail(messages))

\* The result struct after the parse alone: the recoveries find nothing.
RecoverNothing(parsed, keywordLines) ==
  [parseErr |-> parsed.err, RelevantMessages |-> parsed.RelevantMessages,
   Explanation |-> parsed.Explanation]

\* The result struct after the two recoveries, of which keywordLines are the
\* lines found: after a parse error they are appended and, if the result has
\* lines then, the explanation is replaced; a result still without lines
\* gets them.
Recover(parsed, keywordLines) ==
  [parseErr |-> parsed.err,
   RelevantMessages |->
     IF parsed.err \/ Len(parsed.RelevantMessages) = 0
     THEN parsed.RelevantMessages \o keywordLines
     ELSE parsed.RelevantMessages,
   Explanation |->
     IF parsed.err /\ Len(parsed.RelevantMessages \o keywordLines) > 0
     THEN FallbackExplanation
     ELSE parsed.Explanation]

\* The cleaning, the parse and the recoveries of the handler.
AnalysisResult(analysis, question, messages) ==
  Recover(Unmarshal(cleanJSONResponse(analysis)),
          KeywordLines(extractSignificantTerms(question), messages))

\* strings.SplitN(s, ": ", 2): the place of the first ": ", 0 when none.
IndexColonSpace(s) ==
  LET hits == {i \in 1..(Len(s) - 1) : s[i] = ":" /\ s[i + 1] = SP}
  IN  IF hits = {} THEN 0 ELSE CHOOSE i \in hits : \A j \in hits : i <= j

\* A lookup that makes up a message for a line that names none.
FindOriginalOrInvent(messages, username, messageText) ==
  LET hits == {i \in 1..Len(messages) :
                 messages[i].Username = username /\ messages[i].Text = messageText}
  IN  IF hits = {}
      THEN <<Message(0, SuperChat, [UserID |-> 0, Username |-> username], messageText, 0)>>
      ELSE <<messages[CHOOSE i \in hits : \A j \in hits : i <= j]>>

\* The first retrieved message with this handle and text, if any.
FindOriginal(messages, username, messageText) ==
  LET hits == {i \in 1..Len(messages) :
                 messages[i].Username = username /\ messages[i].Text = messageText}
  IN  IF hits = {} THEN <<>>
      ELSE <<messages[CHOOSE i \in hits : \A j \in hits : i <= j]>>

\* relevantMessages: the lines of the result that name a retrieved message.
RECURSIVE MapRelevant(_, _)
MapRelevant(lines, messages) ==
  IF lines = <<>> THEN <<>>
  ELSE LET relevantMsg == Head(lines)
           at == IndexColonSpace(relevantMsg)
       IN  (IF at = 0 THEN <<>>
            ELSE FindOriginal(messages,
                              TrimPrefix(SubSeq(relevantMsg, 1, at - 1), <<"@">>),
                              SubSeq(relevantMsg, at + 2, Len(relevantMsg))))
           \o MapRelevant(Tail(lines), messages)

\* The grouping of the handler: a new conversation starts whenever the
\* handle differs from that of the message before.
RECURSIVE GroupByUsernameLoop(_, _, _, _)
GroupByUsernameLoop(msgs, currentUsername, currentConversation, allConversations) ==
  IF msgs = <<>>
  THEN IF Len(currentConversation) > 0
       THEN Append(allConversations, currentConversation)
       ELSE allConversations
  ELSE LET msg == Head(msgs)
           name == IF currentUsername = <<>> THEN msg.Username ELSE currentUsername
       IN  IF msg.Username # name
           THEN GroupByUsernameLoop(Tail(msgs), msg.Username, <<msg>>,
                                    IF Len(currentConversation) > 0
                                    THEN Append(allConversations, currentConversation)
                                    ELSE allConversations)
           ELSE GroupByUsernameLoop(Tail(msgs), name, Append(currentConversation, msg),
                                    allConversations)

GroupByUsername(relevantMessages) ==
  GroupByUsernameLoop(relevantMessages, <<>>, <<>>, <<>>)

\* A suffix that loses its sign and nothing else.
ChatSuffixSignOnly(chatIDStr) ==
  IF HasPrefix(chatIDStr, <<"-">>) THEN Tail(chatIDStr) ELSE chatIDStr

\* The numeric suffix of a deep link: the decimal text of the chat id
\* without its prefix "-100", or else without its "-".
ChatSuffix(chatIDStr) ==
  IF HasPrefix(chatIDStr, <<"-", "1", "0", "0">>) THEN SubSeq(chatIDStr, 5, Len(chatIDStr))
  ELSE IF HasPrefix(chatIDStr, <<"-">>) THEN Tail(chatIDStr)
  ELSE chatIDStr

\* fmt.Sprintf("https://t.me/c/%s/%d", chatIDStr, message.MessageID).
MessageURL(message) ==
  LinkPrefix \o ChatSuffix(FormatInt64(message.ChatID)) \o <<"/">> \o Itoa(message.MessageID)

\* The line of message j (from 0) of conversation i (from 0).
FullMessage(i, j, message) ==
  (IF j = 0 THEN Itoa(i + 1) \o <<".", SP>> ELSE <<>>) \o MessageLine(message) \o <<LF>>

\* An entity whose span runs one byte past the newline that ends the line.
LineEntityPastNewline(fullMessage, baseOffset, message) ==
  [Type |-> "text_link", Offset |-> baseOffset, Length |-> Len(fullMessage) + 1,
   URL |-> MessageURL(message)]

\* An entity whose span takes in the newline that ends the line.
LineEntityWithNewline(fullMessage, baseOffset, message) ==
  [Type |-> "text_link", Offset |-> baseOffset, Length |-> Len(fullMessage),
   URL |-> MessageURL(message)]

\* The text_link entity of a line written at baseOffset.
LineEntity(fullMessage, baseOffset, message) ==
  [Type |-> "text_link", Offset |-> baseOffset, Length |-> Len(fullMessage) - 1,
   URL |-> MessageURL(message)]

\* The inner loop of the rendering: the messages of conversation i from j on.
RECURSIVE RenderMessages(_, _, _, _)
RenderMessages(conversation, i, j, r) ==
  IF j >= Len(conversation) THEN r
  ELSE LET message == conversation[j + 1]
           fullMessage == FullMessage(i, j, message)
       IN  RenderMessages(conversation, i, j + 1,
             [response |-> r.response \o fullMessage,
              entities |-> Append(r.entities, LineEntity(fullMessage, r.baseOffset, message)),
              baseOffset |-> r.baseOffset + Len(fullMessage)])

\* The outer loop: the conversations from i on, a newline between two.
RECURSIVE RenderConversations(_, _, _)
RenderConversations(allConversations, i, r) ==
  IF i >= Len(allConversations) THEN r
  ELSE LET done == RenderMessages(allConversations[i + 1], i, 0, r)
           sep == IF i < Len(allConversations) - 1
                  THEN [done EXCEPT !.response = @ \o <<LF>>, !.baseOffset = @ + 1]
                  ELSE done
       IN  RenderConversations(allConversations, i + 1, sep)

\* The answer: explanation, header, the numbered conversations, the tip.
Render(explanation, allConversations) ==
  LET start == [response |-> explanation \o DiscussionsHeader, entities |-> <<>>,
                baseOffset |-> Len(explanation) + Len(DiscussionsHeader)]
      r == RenderConversations(allConversations, 0, start)
  IN  [response |-> r.response \o TipText, entities |-> r.entities]

\* One api.Send: the attempt is the n-th of the handler, of which the first
\* sendFails fail.
Sent(text, entities, n, sendFails) ==
  [text |-> text, entities |-> entities, ok |-> n > sendFails]

\* b.sendMessage as the only send of the handler; its error is returned.
Reply(outcome, text, env, base) ==
  [base EXCEPT !.outcome = outcome,
               !.sent = <<Sent(text, <<>>, 1, env.sendFails)>>,
               !.err = IF env.sendFails >= 1 THEN "send" ELSE ErrNil]

\* What the handler has done when it has done nothing.
AskNone ==
  [outcome |-> "none", err |-> ErrNil, sent |-> <<>>, searched |-> FALSE, asked |-> FALSE,
   question |-> <<>>, messages |-> <<>>, parseErr |-> FALSE, lines |-> <<>>,
   relevantMessages |-> <<>>, allConversations |-> <<>>, response |-> <<>>,
   entities |-> <<>>, prepared |-> <<>>]

\* A handler that returns the error of the send with entities.
AskSendOnce(env, base, relevantMessages, allConversations, answer) ==
  [base EXCEPT
     !.outcome = "answer",
     !.relevantMessages = relevantMessages,
     !.allConversations = allConversations,
     !.response = answer.response,
     !.entities = answer.entities,
     !.sent = <<Sent(answer.response, answer.entities, 1, env.sendFails)>>,
     !.err = IF env.sendFails >= 1 THEN "send" ELSE ErrNil]

\* The end of the handler: the answer is sent with its entities and, when
\* that fails, once more as plain text, whose error is returned.
AskSend(env, base, relevantMessages, allConversations, answer) ==
  [base EXCEPT
     !.outcome = "answer",
     !.relevantMessages = relevantMessages,
     !.allConversations = allConversations,
     !.response = answer.response,
     !.entities = answer.entities,
     !.sent = IF env.sendFails = 0
              THEN <<Sent(answer.response, answer.entities, 1, env.sendFails)>>
              ELSE <<Sent(answer.response, answer.entities, 1, env.sendFails),
                     Sent(answer.response, <<>>, 2, env.sendFails)>>,
     !.err = IF env.sendFails >= 2 THEN "send" ELSE ErrNil]

AskRender(env, base, explanation, relevantMessages, allConversations) ==
  AskSend(env, base, relevantMessages, allConversations,
          Render(explanation, allConversations))

AskGroup(env, base, explanation, relevantMessages) ==
  AskRender(env, base, explanation, relevantMessages, GroupByUsername(relevantMessages))

\* The handler once the result struct is final.
AskResult(env, base, messages, result) ==
  IF Len(result.RelevantMessages) = 0
  THEN Reply("nothing_found", NothingFoundMessage, env,
             [base EXCEPT !.parseErr = result.parseErr])
  ELSE AskGroup(env, [base EXCEPT !.parseErr = result.parseErr,
                                  !.lines = result.RelevantMessages],
                result.Explanation, MapRelevant(result.RelevantMessages, messages))

\* The handler once the messages of the group are retrieved.
AskMessages(env, base, question, messages) ==
  IF Len(messages) = 0
  THEN Reply("no_messages", NoMessagesMessage, env, [base EXCEPT !.searched = TRUE])
  ELSE IF env.aiFails
  THEN [base EXCEPT !.outcome = "error", !.searched = TRUE, !.messages = messages,
                    !.asked = TRUE, !.err = "failed to analyze messages"]
  ELSE AskResult(env, [base EXCEPT !.searched = TRUE, !.messages = messages,
                                   !.asked = TRUE],
                 messages, AnalysisResult(env.analysis, question, messages))

\* The handler once the question is cut out of the command.
AskQuestion(idx, msg, env, question) ==
  IF question = <<>>
  THEN Reply("no_question", ProvideQuestionMessage, env, AskNone)
  ELSE IF env.searchFails
  THEN [AskNone EXCEPT !.outcome = "error", !.question = question, !.searched = TRUE,
                       !.err = "failed to fetch messages"]
  ELSE AskMessages(env, [AskNone EXCEPT !.question = question], question,
                   SearchMessages(idx, msg.Chat.ID, AskLimit))

\* A handler that does not look at the status of the bot in the chat.
HandleAskCommandNoAdminCheck(idx, msg, env) ==
  IF env.memberFails
  THEN [AskNone EXCEPT !.outcome = "error", !.err = "failed to check bot permissions"]
  ELSE AskQuestion(idx, msg, env, TrimSpace(TrimPrefix(msg.Text, AskCommand)))

\* Bot.HandleAskCommand on msg, with the index idx and the outcomes env of
\* its calls to the transport, the index and the completion model.
HandleAskCommand(idx, msg, env) ==
  IF env.memberFails
  THEN [AskNone EXCEPT !.outcome = "error", !.err = "failed to check bot permissions"]
  ELSE IF env.status # "administrator" THEN Reply("not_admin", AdminMessage, env, AskNone)
  ELSE AskQuestion(idx, msg, env, TrimSpace(TrimPrefix(msg.Text, AskCommand)))

\* The chats of the model, as tgbotapi.Chat: the id and the type.
ChatSuper == [ID |-> SuperChat, Type |-> "supergroup"]

ChatBasic == [ID |-> BasicChat, Type |-> "group"]

ChatPrivate == [ID |-> Int64(FALSE, 0, 7), Type |-> "private"]

\* The basic group -<N> of the supergroup -100<N>.
ChatBasicOfSuper == [ID |-> Int64(TRUE, SuperChat.hi - 1000, SuperChat.lo), Type |-> "group"]

\* No goroutine is backfilling.
BackfillIdle == [active |-> FALSE, chat |-> ChatPrivate, queue |-> <<>>, storedCount |-> 0]

\* Nothing has been handled yet.
LastNone ==
  [op |-> "none", message |-> TgMessage(0, ChatPrivate, UserAl, <<>>), storeFails |-> FALSE,
   engine |-> EngineOK, err |-> ErrNil, storeBefore |-> <<>>, indexBefore |-> <<>>,
   at |-> Time(0, 0)]

\* No command has been handled.
AskIdle ==
  [msg |-> TgMessage(0, ChatPrivate, UserAl, <<>>),
   env |-> [memberFails |-> FALSE, status |-> "none", searchFails |-> FALSE,
            aiFails |-> FALSE, analysis |-> <<>>, sendFails |-> 0],
   res |-> AskNone]

IngestIdle ==
  /\ ask = AskIdle
  /\ store = <<>>
  /\ index = <<>>
  /\ now = 0
  /\ nUpdates = 0
  /\ backfill = BackfillIdle
  /\ last = LastNone

(***************************************************************************)
(* The search engine as NewMeiliSearch drives it                           *)
(***************************************************************************)

\* The settings of an index that nobody configured yet.
DefaultSettings ==
  [searchableAttributes |-> <<"*">>,
   rankingRules |-> <<"words", "typo", "proximity", "attribute", "sort", "exactness">>,
   filterableAttributes |-> <<>>,
   sortableAttributes |-> <<>>,
   typoTolerance |-> [Enabled |-> TRUE, OneTypo |-> 5, TwoTypos |-> 9,
                      DisableOnWords |-> <<>>, DisableOnAttributes |-> <<>>],
   pagination |-> [MaxTotalHits |-> 1000]]

\* The engine before the index was ever created: no index, no task.
FreshMeili ==
  [exists |-> FALSE, primaryKey |-> "", settings |-> DefaultSettings, queue |-> <<>>,
   nextUID |-> 0, created |-> 0, failed |-> {}]

\* The IndexConfig that NewMeiliSearch hands to CreateIndex.
CreateIndexConfigNoKey == [Uid |-> "messages", PrimaryKey |-> ""]

CreateIndexConfig == [Uid |-> "messages", PrimaryKey |-> "message_uid"]

\* The settings updates of NewMeiliSearch, in the order of its calls; each is
\* followed by WaitForTask on the task it returned.
ConfigCalls ==
  <<[kind |-> "searchableAttributes", value |-> <<"text", "username">>],
    [kind |-> "rankingRules",
     value |-> <<"words", "typo", "proximity", "attribute", "sort", "exactness">>],
    [kind |-> "filterableAttributes",
     value |-> <<"chat_id", "user_id", "message_id", "created_at", "username">>],
    [kind |-> "sortableAttributes", value |-> <<"created_at">>],
    [kind |-> "settings",
     value |-> [typoTolerance |-> [Enabled |-> TRUE, OneTypo |-> 2, TwoTypos |-> 3,
                                   DisableOnWords |-> <<>>, DisableOnAttributes |-> <<>>],
                pagination |-> [MaxTotalHits |-> 100]]],
    [kind |-> "searchableAttributes", value |-> <<"text", "username">>],
    [kind |-> "searchableAttributes", value |-> <<"text", "username">>]>>

\* The engine accepts a task: it joins the queue under the next task uid.
Enqueue(m, kind, value) ==
  [m EXCEPT !.queue = Append(@, [uid |-> m.nextUID, kind |-> kind, value |-> value]),
            !.nextUID = @ + 1]

\* The settings once an update task went through: the named setting is
\* replaced; an UpdateSettings replaces the settings its argument carries.
UpdatedSettings(settings, task) ==
  IF task.kind = "settings"
  THEN [settings EXCEPT !.typoTolerance = task.value.typoTolerance,
                        !.pagination = task.value.pagination]
  ELSE [settings EXCEPT ![task.kind] = task.value]

\* An engine whose index creation replaces an index that exists.
ApplyTaskReplacing(m, docs, task) ==
  IF task.kind = "indexCreation"
  THEN [meili |-> [m EXCEPT !.exists = TRUE, !.primaryKey = task.value.PrimaryKey,
                            !.settings = DefaultSettings, !.created = @ + 1],
        index |-> <<>>]
  ELSE [meili |-> [m EXCEPT !.exists = TRUE,
                            !.created = IF m.exists THEN @ ELSE @ + 1,
                            !.settings = UpdatedSettings(@, task)],
        index |-> docs]

\* The engine processes a task.  An index creation fails when the index
\* exists (index_already_exists) and changes nothing; a settings update
\* creates an index that does not exist, without a primary key.  No task of
\* NewMeiliSearch touches the documents.
ApplyTask(m, docs, task) ==
  IF task.kind = "indexCreation"
  THEN [meili |-> IF m.exists THEN [m EXCEPT !.failed = @ \cup {task.uid}]
                  ELSE [m EXCEPT !.exists = TRUE, !.primaryKey = task.value.PrimaryKey,
                                 !.created = @ + 1],
        index |-> docs]
  ELSE [meili |-> [m EXCEPT !.exists = TRUE,
                            !.created = IF m.exists THEN @ ELSE @ + 1,
                            !.settings = UpdatedSettings(@, task)],
        index |-> docs]

\* The task was processed: it left the queue.
Processed(m, uid) == \A i \in 1..Len(m.queue) : m.queue[i].uid # uid

\* The two processes that may call NewMeiliSearch on the same engine.
Callers == {1, 2}

\* A process that has not called NewMeiliSearch.
CallerIdle ==
  [pc |-> "idle", k |-> 0, task |-> 0, runs |-> 0, absent |-> FALSE, created |-> FALSE,
   first |-> DefaultSettings]

ConfigIdle ==
  /\ meili = FreshMeili
  /\ callers = [c \in Callers |-> CallerIdle]

\* A goroutine that is not inside storeMessage.
NoCall ==
  [busy |-> FALSE, stored |-> FALSE, at |-> 0, msg |-> Message(0, SuperChat, UserAl, <<>>, 0),
   engine |-> EngineOK]

\* No call of storeMessage is under way and none has returned.
FlightIdle == [main |-> NoCall, backfill |-> NoCall, ingested |-> {}]

\* No call of IndexMessage has run.
IndexingIdle ==
  [pc |-> "idle", calls |-> 0, msg |-> <<>>, task |-> 0, err |-> ErrNil, succeeded |-> {}]

\* No retrieval has run.
RetrIdle ==
  [pc |-> "idle", op |-> "none", response |-> <<>>, hits |-> <<>>, failAt |-> 0,
   ctxDone |-> FALSE, out |-> <<>>, err |-> ErrNil, searches |-> 0]

(***************************************************************************)
(* SpecClean: cleanJSONResponse on the outputs of the completion model     *)
(***************************************************************************)

MaxValueLen == 2

ValueBytes == {"a", BT, "{", "}"}

CleanValues == SeqsUpTo(ValueBytes, MaxValueLen)

CleanCases ==
  {c \in [wrap : WrapKinds, prose : Proses, line : CleanValues, expl : CleanValues,
          pretty : BOOLEAN] :
     /\ c.wrap \notin {"lead", "trail"} => c.prose = PlainProse
     /\ c.line = <<>> \/ c.expl = <<"a">>}

CleanRel(c) == IF c.line = <<>> THEN <<>> ELSE <<c.line>>

CleanIdle ==
  /\ cleanCase = [wrap |-> "raw", prose |-> PlainProse, line |-> <<>>, expl |-> <<>>,
                  pretty |-> FALSE]
  /\ cleanIn = <<>>
  /\ cleanOut = <<>>
  /\ cleanPc = "idle"

GroupIdle ==
  /\ groupIn = <<>>
  /\ groupSortedIn = <<>>
  /\ groupOut = <<>>
  /\ groupOutSorted = <<>>
  /\ groupPc = "idle"

InitClean ==
  /\ ConfigIdle
  /\ inflight = FlightIdle
  /\ retr = RetrIdle
  /\ indexing = IndexingIdle
  /\ GroupIdle
  /\ IngestIdle
  /\ cleanCase \in CleanCases
  /\ cleanIn = WrapOutput(cleanCase.wrap, cleanCase.prose,
                          EncodeResult(CleanRel(cleanCase), cleanCase.expl, cleanCase.pretty))
  /\ cleanOut = <<>>
  /\ cleanPc = "start"

Clean ==
  /\ cleanPc = "start"
  /\ cleanOut' = cleanJSONResponse(cleanIn)
  /\ cleanPc' = "done"
  /\ UNCHANGED <<cleanCase, cleanIn, groupVars, ingestVars, ask, configVars, inflight, retr, indexing>>

NextClean == Clean

SpecClean == InitClean /\ [][NextClean]_vars

\* C5 (as stated): for every model output that is a well-formed JSON object
\* wrapped in a fence, or preceded or followed by prose, the cleaned string
\* parses as that object with the same field values.
C5_CleanedParsesAsObject ==
  cleanPc = "done" =>
    Unmarshal(cleanOut) = [err |-> FALSE, RelevantMessages |-> CleanRel(cleanCase),
                           Explanation |-> cleanCase.expl]

NoBacktick(v) == \A i \in 1..Len(v) : v[i] # BT

NoBrace(v) == \A i \in 1..Len(v) : v[i] \notin {"{", "}"}

\* C5 (amended): the same, for objects that contain no backtick and prose
\* that contains no brace.
C5_CleanedParsesAsObjectAmended ==
  (/\ cleanPc = "done"
   /\ NoBacktick(cleanCase.line) /\ NoBacktick(cleanCase.expl)
   /\ NoBrace(cleanCase.prose)) =>
    Unmarshal(cleanOut) = [err |-> FALSE, RelevantMessages |-> CleanRel(cleanCase),
                           Explanation |-> cleanCase.expl]

\* A fenced, pretty-printed object whose message line holds braces was
\* cleaned and parses as itself.
C5_Witness ==
  /\ cleanPc = "done"
  /\ cleanCase.wrap = "fence_json"
  /\ cleanCase.pretty
  /\ cleanCase.line = <<"}", "{">>
  /\ cleanOut # cleanIn
  /\ Unmarshal(cleanOut).RelevantMessages = <<cleanCase.line>>

(***************************************************************************)
(* SpecGroup: groupMessagesByContext on the same messages, once in the     *)
(* order given and once already in ascending order of time                 *)
(***************************************************************************)

MaxGroupLen == 3

GroupTimes == {0, 10, 130, 610}

GroupTexts == {TextQuestion, TextYes, TextDockerfile, TextOk}

\* A slice of the model: the message at place i has the id i, the text tx[i]
\* and the time tm[i].
GroupInput(n, tx, tm) ==
  [i \in 1..n |-> Message(i, SuperChat, IF i % 2 = 1 THEN UserAl ELSE UserBo, tx[i], tm[i])]

InitGroup ==
  /\ ConfigIdle
  /\ inflight = FlightIdle
  /\ retr = RetrIdle
  /\ indexing = IndexingIdle
  /\ CleanIdle
  /\ IngestIdle
  /\ \E n \in 0..MaxGroupLen :
       \E tx \in [1..n -> GroupTexts], tm \in [1..n -> GroupTimes] :
         groupIn = GroupInput(n, tx, tm)
  /\ groupSortedIn = <<>>
  /\ groupOut = <<>>
  /\ groupOutSorted = <<>>
  /\ groupPc = "start"

Group ==
  /\ groupPc = "start"
  /\ \E sorted \in {s \in Arrangements(groupIn) : IsSortedByTime(s)} :
       /\ groupSortedIn' = sorted
       /\ groupOutSorted' = groupMessagesByContext(sorted)
  /\ groupOut' = groupMessagesByContext(groupIn)
  /\ groupPc' = "done"
  /\ UNCHANGED <<groupIn, cleanVars, ingestVars, ask, configVars, inflight, retr, indexing>>

NextGroup == Group

SpecGroup == InitGroup /\ [][NextGroup]_vars

DistinctTimes(s) ==
  \A i, j \in 1..Len(s) : i # j => s[i].CreatedAt # s[j].CreatedAt

\* C3 (as stated): for any set of messages, also with several messages of
\* the same timestamp, the conversations returned for the set already
\* sorted equal those returned for it in any other order.
C3_GroupingIgnoresInputOrder ==
  groupPc = "done" => groupOut = groupOutSorted

\* C3 (amended): for any set of messages with pairwise distinct timestamps,
\* the conversations returned for the set already sorted equal those
\* returned for it in any other order.
C3_GroupingIgnoresInputOrderDistinctTimes ==
  (groupPc = "done" /\ DistinctTimes(groupIn)) => groupOut = groupOutSorted

\* Three messages with distinct timestamps, handed over out of order, were
\* grouped into more than one conversation, the same as when handed sorted.
C3_Witness ==
  /\ groupPc = "done"
  /\ Len(groupIn) = 3
  /\ DistinctTimes(groupIn)
  /\ ~IsSortedByTime(groupIn)
  /\ Len(groupOut) >= 2
  /\ groupOut = groupOutSorted

(***************************************************************************)
(* Spec: the consumer of updates and the history backfill, which both      *)
(* ingest through storeMessage.  The messages the handlers send to the     *)
(* chat are no part of this state.  One goroutine backfills at a time and  *)
(* each of its calls of storeMessage is one step.                          *)
(***************************************************************************)

MaxUpdates == 2

MessageIDs == {1, 2}

IngestTexts == {TextQuestion, TextYes, TextEmpty}

GroupChats == {ChatSuper, ChatBasic}

\* The author of a message of the model.
AuthorOf(id) == IF id % 2 = 1 THEN UserAl ELSE UserBo

\* The faults of a call of storeMessage: the store fails, or the engine does.
Engines ==
  {EngineOK, Engine(1, "add", FALSE), Engine(2, "add", FALSE), Engine(3, "add", FALSE),
   Engine(1, "wait", TRUE), Engine(1, "wait", FALSE), Engine(1, "status", FALSE)}

Faults ==
  {[storeFails |-> FALSE, engine |-> e] : e \in Engines}
  \cup {[storeFails |-> TRUE, engine |-> EngineOK]}

\* The nanoseconds of time.Now() in the model.
Nanos == {0, 500000000}

\* What GetChatHistory can fetch of a chat, newest first.
Recents(chat) ==
  {<<>>}
  \cup {<<TgMessage(id, chat, AuthorOf(id), text)>> : id \in MessageIDs, text \in IngestTexts}
  \cup {<<TgMessage(2, chat, AuthorOf(2), t2), TgMessage(1, chat, AuthorOf(1), t1)>> :
          t1 \in IngestTexts, t2 \in IngestTexts}

Init ==
  /\ ConfigIdle
  /\ inflight = FlightIdle
  /\ retr = RetrIdle
  /\ indexing = IndexingIdle
  /\ CleanIdle
  /\ GroupIdle
  /\ IngestIdle

\* Message.IsCommand for the texts of the model.
IsCommand(message) == HasPrefix(message.Text, <<"/">>)

\* The commands among the updates of the ingestion: /status and /ask.
TextStatus == <<"/", "s", "t", "a", "t", "u", "s">>

CommandTexts == {TextStatus, AskCommand}

\* A loop that does not look for commands.
DispatchNoCommands(message) ==
  IF IsGroupChat(message.Chat) THEN "store" ELSE "drop"

\* The loop of main on update.Message: a command goes to handleCommand, any
\* other message of a group or supergroup to storeMessage, the rest nowhere.
Dispatch(message) ==
  IF IsCommand(message) THEN "command"
  ELSE IF IsGroupChat(message.Chat) THEN "store"
  ELSE "drop"

\* The loop of main on a message that is no command, from a group or a
\* supergroup: storeMessage, whose error the loop drops.
StoreLive(chat, id, text, fault, nsec) ==
  /\ Dispatch(TgMessage(id, chat, AuthorOf(id), text)) = "store"
  /\ now' = now + 15
  /\ LET message == TgMessage(id, chat, AuthorOf(id), text)
         r == storeMessage(store, index, message, Time(now', nsec), fault.storeFails,
                           fault.engine)
     IN  /\ store' = r.store
         /\ index' = r.index
         /\ last' = [op |-> "live", message |-> message, storeFails |-> fault.storeFails,
                     engine |-> fault.engine, err |-> r.err, storeBefore |-> store,
                     indexBefore |-> index, at |-> Time(now', nsec)]
  /\ nUpdates' = nUpdates + 1
  /\ ask' = AskIdle
  /\ UNCHANGED <<backfill, cleanVars, groupVars, configVars, inflight, retr, indexing>>

LiveMessage ==
  \E chat \in GroupChats, id \in MessageIDs, text \in IngestTexts \cup CommandTexts,
     fault \in Faults, nsec \in Nanos :
    /\ nUpdates < MaxUpdates
    /\ StoreLive(chat, id, text, fault, nsec)

\* The loop of main on a message that is no command, from a private chat.
PrivateMessage ==
  \E id \in MessageIDs, text \in IngestTexts :
    /\ nUpdates < MaxUpdates
    /\ Dispatch(TgMessage(id, ChatPrivate, AuthorOf(id), text)) = "drop"
    /\ now' = now + 15
    /\ last' = [LastNone EXCEPT !.op = "private",
                                !.message = TgMessage(id, ChatPrivate, AuthorOf(id), text),
                                !.storeBefore = store, !.indexBefore = index]
    /\ nUpdates' = nUpdates + 1
    /\ UNCHANGED <<store, index, backfill, cleanVars, groupVars, configVars, inflight, ask, retr, indexing>>

\* handleChatMemberUpdate: the bot became a member or an administrator of
\* the chat; as an administrator it starts the goroutine, which fetches the
\* history and will store it oldest first.
ChatMemberUpdate ==
  \E chat \in GroupChats, status \in {"member", "administrator", "left"},
     historyFails \in BOOLEAN :
    \E recent \in Recents(chat) :
      /\ nUpdates < MaxUpdates
      /\ ~backfill.active
      /\ (status # "administrator" \/ historyFails) => recent = <<>>
      /\ now' = now + 15
      /\ LET messages == GetChatHistory(recent)
         IN  backfill' = IF status = "administrator" /\ ~historyFails /\ messages # <<>>
                         THEN [active |-> TRUE, chat |-> chat, queue |-> Reverse(messages),
                               storedCount |-> 0]
                         ELSE BackfillIdle
      /\ last' = [LastNone EXCEPT !.op = "chat_member", !.storeBefore = store,
                                  !.indexBefore = index]
      /\ nUpdates' = nUpdates + 1
      /\ UNCHANGED <<store, index, cleanVars, groupVars, configVars, inflight, ask, retr, indexing>>

\* One turn of the loop of the goroutine: a message that has text is stored
\* and counted, whatever storeMessage returns.
BackfillStep ==
  \E fault \in Faults, nsec \in Nanos :
    /\ backfill.active
    /\ backfill.queue # <<>>
    /\ LET msg == Head(backfill.queue)
           r == storeMessage(store, index, msg, Time(now, nsec), fault.storeFails,
                             fault.engine)
           rest == Tail(backfill.queue)
       IN  IF msg.Text # <<>>
           THEN /\ store' = r.store
                /\ index' = r.index
                /\ last' = [op |-> "backfill", message |-> msg,
                            storeFails |-> fault.storeFails, engine |-> fault.engine,
                            err |-> r.err, storeBefore |-> store, indexBefore |-> index,
                            at |-> Time(now, nsec)]
                /\ backfill' = IF rest = <<>> THEN BackfillIdle
                               ELSE [backfill EXCEPT !.queue = rest,
                                                     !.storedCount = @ + 1]
           ELSE /\ fault = [storeFails |-> FALSE, engine |-> EngineOK]
                /\ nsec = 0
                /\ UNCHANGED <<store, index>>
                /\ last' = [LastNone EXCEPT !.op = "backfill_skip", !.message = msg,
                                            !.storeBefore = store, !.indexBefore = index]
                /\ backfill' = IF rest = <<>> THEN BackfillIdle
                               ELSE [backfill EXCEPT !.queue = rest]
    /\ UNCHANGED <<now, nUpdates, cleanVars, groupVars, configVars, inflight, ask, retr, indexing>>

\* The loop of main on a command, from any chat: handleCommand answers
\* it; none of its cases writes to the store or to the index.
CommandMessage ==
  \E chat \in GroupChats \cup {ChatPrivate}, id \in MessageIDs, text \in CommandTexts :
    /\ nUpdates < MaxUpdates
    /\ Dispatch(TgMessage(id, chat, AuthorOf(id), text)) = "command"
    /\ now' = now + 15
    /\ last' = [LastNone EXCEPT !.op = "command",
                                !.message = TgMessage(id, chat, AuthorOf(id), text),
                                !.storeBefore = store, !.indexBefore = index]
    /\ nUpdates' = nUpdates + 1
    /\ UNCHANGED <<store, index, backfill, cleanVars, groupVars, configVars, inflight, ask,
                   retr, indexing>>

Next ==
  \/ LiveMessage
  \/ PrivateMessage
  \/ CommandMessage
  \/ ChatMemberUpdate
  \/ BackfillStep

Spec == Init /\ [][Next]_vars

\* The step just taken called storeMessage.
Ingested == last.op \in {"live", "backfill"}

\* The places of the documents of an identity key (group id, message id).
StoredAt(docs, chatID, id) ==
  {i \in 1..Len(docs) : docs[i].doc.ChatID = chatID /\ docs[i].doc.MessageID = id}

IndexedAt(idx, chatID, id) ==
  {i \in 1..Len(idx) : idx[i].chat_id = chatID /\ idx[i].message_id = id}

\* The step just taken ingested, without error, an identity key that the
\* store and the index already held with another text.
ReIngested ==
  /\ Ingested
  /\ last.err = ErrNil
  /\ \E i \in StoredAt(last.storeBefore, last.message.Chat.ID, last.message.MessageID) :
       last.storeBefore[i].doc.Text # last.message.Text
  /\ \E i \in IndexedAt(last.indexBefore, last.message.Chat.ID, last.message.MessageID) :
       last.indexBefore[i].text # last.message.Text

\* C1: ingestion is idempotent.  After an ingest of an identity key that was
\* ingested before with another text, the store and the index each hold
\* exactly one document for the key, with the text of this latest ingest,
\* and hold as many documents as before it; and never more than one
\* document for any key.
C1_IdempotentIngestion ==
  /\ \A chat \in GroupChats, id \in MessageIDs :
       /\ Cardinality(StoredAt(store, chat.ID, id)) <= 1
       /\ Cardinality(IndexedAt(index, chat.ID, id)) <= 1
  /\ ReIngested =>
       LET stored == StoredAt(store, last.message.Chat.ID, last.message.MessageID)
           indexed == IndexedAt(index, last.message.Chat.ID, last.message.MessageID)
       IN  /\ Cardinality(stored) = 1
           /\ Cardinality(indexed) = 1
           /\ \A i \in stored : store[i].doc.Text = last.message.Text
           /\ \A i \in indexed : index[i].text = last.message.Text
           /\ Len(store) = Len(last.storeBefore)
           /\ Len(index) = Len(last.indexBefore)

\* A live message replaced the text that the backfill or an earlier
\* delivery had stored for its key, while another document was held too.
C1_Witness ==
  /\ ReIngested
  /\ last.op = "live"
  /\ Len(store) = 2
  /\ Len(index) = 2
  /\ \E i \in 1..Len(index) : index[i].text = last.message.Text
  /\ \E i \in 1..Len(store) : store[i].doc.Text = last.message.Text

\* C8 (as stated): after any sequence of deliveries the index holds no
\* document whose text is empty, and a delivered message without text adds
\* no document, on the live path as on the backfill path.
C8_NoEmptyTextIndexed ==
  /\ \A i \in 1..Len(index) : index[i].text # TextEmpty
  /\ (Ingested /\ last.message.Text = TextEmpty) => index = last.indexBefore

\* C10 (as stated): an index write that fails on fewer than 3 consecutive
\* attempts and then succeeds makes ingest return success with the document
\* in the index; one that fails on all 3 attempts makes ingest return the
\* error.
C10_IndexWriteRetried ==
  (Ingested /\ ~last.storeFails) =>
    /\ last.engine.failures < 3 =>
         /\ last.err = ErrNil
         /\ IndexedAt(index, last.message.Chat.ID, last.message.MessageID) # {}
    /\ last.engine.failures >= 3 => last.err # ErrNil

(***************************************************************************)
(* SpecAsk: messages are delivered to the groups and /ask is sent there.   *)
(* /ask changes neither the store nor the index, so a run is followed up   *)
(* to its first /ask.                                                      *)
(***************************************************************************)

MaxAskUpdates == 3

MaxLines == 2

\* The text of the messages of the model: message 1 asks, message 2 answers.
CorpusText(id) == IF id = 1 THEN TextQuestion ELSE TextDockerfile

TextAskNothing == AskCommand \o <<SP>>

TextAskDocker ==
  <<"/", "a", "s", "k", SP, "d", "o", "c", "k", "e", "r">>

TextAskRust ==
  <<"/", "a", "s", "k", SP, "r", "u", "s", "t">>

AskTexts == {TextAskNothing, TextAskDocker, TextAskRust}

\* The lines the completion model can return: the two messages of the
\* model, a line that names no message, and a line without ": ".
LineGhost ==
  <<"@", "z", "z", ":", SP, "n", "o", "p", "e">>

LineNoColon ==
  <<"h", "e", "l", "l", "o">>

CandidateLines ==
  {MessageLine(Message(1, SuperChat, UserAl, CorpusText(1), 0)),
   MessageLine(Message(2, SuperChat, UserBo, CorpusText(2), 0)),
   LineGhost, LineNoColon}

TextSee ==
  <<"S", "e", "e">>

\* The outputs of the completion model: the object asked for, raw or in a
\* fence, and outputs that are no such object.
WellFormedAnalyses ==
  {EncodeResult(rel, TextSee, FALSE) : rel \in SeqsUpTo(CandidateLines, MaxLines)}
  \cup {WrapOutput("fence_json", PlainProse, EncodeResult(<<line>>, TextSee, TRUE)) :
          line \in CandidateLines}

AnalysisNoBraces == PlainProse

AnalysisUnclosed ==
  <<"{", DQ, "r", "e", "l", "e", "v", "a", "n", "t", "_", "m", "e", "s", "s", "a", "g",
    "e", "s", DQ, ":", "[", DQ, "@", "a", "l", ":", SP, "a", "n", "y", SP, "D", "o", "c",
    "k", "e", "r", "?", DQ>>

AnalysisWrongType ==
  <<"{", DQ, "e", "x", "p", "l", "a", "n", "a", "t", "i", "o", "n", DQ, ":", DQ, "S", "e",
    "e", DQ, ",", DQ, "r", "e", "l", "e", "v", "a", "n", "t", "_", "m", "e", "s", "s", "a",
    "g", "e", "s", DQ, ":", DQ, "a", "l", "l", DQ, "}">>

\* An object whose lines decode before its explanation fails to.
AnalysisPartial ==
  <<"{", DQ, "r", "e", "l", "e", "v", "a", "n", "t", "_", "m", "e", "s", "s", "a", "g",
    "e", "s", DQ, ":", "[", DQ, "@", "z", "z", ":", SP, "n", "o", "p", "e", DQ, "]", ",",
    DQ, "e", "x", "p", "l", "a", "n", "a", "t", "i", "o", "n", DQ, ":", "[", DQ, "x", DQ,
    "]", "}">>

MalformedAnalyses == {AnalysisNoBraces, AnalysisUnclosed, AnalysisWrongType, AnalysisPartial}

AskEnv(memberFails, status, searchFails, aiFails, analysis, sendFails) ==
  [memberFails |-> memberFails, status |-> status, searchFails |-> searchFails,
   aiFails |-> aiFails, analysis |-> analysis, sendFails |-> sendFails]

\* The outcomes of the calls of one /ask.
AskEnvs ==
  {AskEnv(FALSE, "administrator", FALSE, FALSE, analysis, sendFails) :
     analysis \in WellFormedAnalyses \cup MalformedAnalyses, sendFails \in {0, 1, 2}}
  \cup {AskEnv(TRUE, "administrator", FALSE, FALSE, <<>>, 0),
        AskEnv(FALSE, "member", FALSE, FALSE, <<>>, 0),
        AskEnv(FALSE, "member", FALSE, FALSE, <<>>, 1),
        AskEnv(FALSE, "administrator", TRUE, FALSE, <<>>, 0),
        AskEnv(FALSE, "administrator", FALSE, TRUE, <<>>, 0)}

\* The text handleCommand sets when HandleAskCommand returns an error.
AskFailureMessage ==
  <<"S", "o", "r", "r", "y", ",", SP, "a", "n", SP, "e", "r", "r", "o", "r", SP, "o", "c",
    "c", "u", "r", "r", "e", "d", SP, "w", "h", "i", "l", "e", SP, "p", "r", "o", "c", "e",
    "s", "s", "i", "n", "g", SP, "y", "o", "u", "r", SP, "q", "u", "e", "s", "t", "i", "o",
    "n", ".">>

\* The case "ask" of handleCommand: on an error of the handler it logs the
\* error, puts the failure text into the reply it prepared and returns; the
\* api.Send at the end of handleCommand is not reached.
handleCommandAsk(res) ==
  IF res.err # ErrNil THEN [res EXCEPT !.prepared = AskFailureMessage] ELSE res

\* Message.Command for the commands of the model.
Command(message) ==
  LET body == Tail(message.Text)
      stop == Index(body, SP)
  IN  IF stop = 0 THEN body ELSE SubSeq(body, 1, stop - 1)

\* Message.CommandArguments: the text after the command and one space.
CommandArguments(message) ==
  IF Index(message.Text, SP) = 0 THEN <<>>
  ELSE SubSeq(message.Text, Index(message.Text, SP) + 1, Len(message.Text))

TextSearchNothing ==
  <<"/", "s", "e", "a", "r", "c", "h">>

TextSearchDocker ==
  <<"/", "s", "e", "a", "r", "c", "h", SP, "d", "o", "c", "k", "e", "r">>

TextSearchRust ==
  <<"/", "s", "e", "a", "r", "c", "h", SP, "r", "u", "s", "t">>

SearchTexts == {TextSearchNothing, TextSearchDocker, TextSearchRust}

ProvideQueryMessage ==
  <<"P", "l", "e", "a", "s", "e", SP, "p", "r", "o", "v", "i", "d", "e", SP, "a", SP, "s",
    "e", "a", "r", "c", "h", SP, "q", "u", "e", "r", "y", ".", SP, "E", "x", "a", "m", "p",
    "l", "e", ":", SP, "/", "s", "e", "a", "r", "c", "h", SP, "g", "o", "l", "a", "n", "g">>

SearchErrorMessage ==
  <<"S", "o", "r", "r", "y", ",", SP, "a", "n", SP, "e", "r", "r", "o", "r", SP, "o", "c",
    "c", "u", "r", "r", "e", "d", SP, "w", "h", "i", "l", "e", SP, "s", "e", "a", "r", "c",
    "h", "i", "n", "g", ".">>

NoMatchMessage ==
  <<"N", "o", SP, "m", "e", "s", "s", "a", "g", "e", "s", SP, "f", "o", "u", "n", "d", SP,
    "m", "a", "t", "c", "h", "i", "n", "g", SP, "y", "o", "u", "r", SP, "q", "u", "e", "r",
    "y", ".">>

FoundHeader ==
  <<"F", "o", "u", "n", "d", SP, "m", "e", "s", "s", "a", "g", "e", "s", ":", LF, LF>>

FromPrefix ==
  <<"F", "r", "o", "m", SP, "@">>

\* Limit: 50 of the search request of /search.
SearchLimit == 50

\* The engine matches a query on the attribute text: a word of the text
\* begins with a word of the query, whatever the case.
MatchesQuery(text, query) ==
  \E w \in Range(Fields(ToLower(query))) :
    \E v \in Range(Fields(ToLower(text))) : HasPrefix(v, w)

RECURSIVE SelectMatching(_, _)
SelectMatching(messages, query) ==
  IF messages = <<>> THEN <<>>
  ELSE (IF MatchesQuery(Head(messages).Text, query) THEN <<Head(messages)>> ELSE <<>>)
       \o SelectMatching(Tail(messages), query)

\* The limit applies to the hits that match the query.
FirstOf(messages, limit) == SubSeq(messages, 1, Min(limit, Len(messages)))

\* SearchMessages with the query of /search.
SearchQuery(idx, chatID, query, limit) ==
  FirstOf(SelectMatching(SearchMessages(idx, chatID, Len(idx)), query), limit)

RECURSIVE RenderResults(_)
RenderResults(results) ==
  IF results = <<>> THEN <<>>
  ELSE FromPrefix \o Head(results).Username \o <<":", LF>> \o Head(results).Text
       \o <<LF, LF>> \o RenderResults(Tail(results))

\* The one api.Send that ends handleCommand; its error is logged.
SearchReply(outcome, text, env, results) ==
  [AskNone EXCEPT !.outcome = outcome,
                  !.searched = outcome \in {"search_none", "search_found"},
                  !.messages = results,
                  !.response = text,
                  !.sent = <<Sent(text, <<>>, 1, env.sendFails)>>]

SearchResults(env, results) ==
  IF Len(results) = 0 THEN SearchReply("search_none", NoMatchMessage, env, results)
  ELSE SearchReply("search_found", FoundHeader \o RenderResults(results), env, results)

\* The case "search" of handleCommand.
SearchCommand(idx, chatID, query, env) ==
  IF query = <<>> THEN SearchReply("search_no_query", ProvideQueryMessage, env, <<>>)
  ELSE IF env.searchFails THEN SearchReply("search_error", SearchErrorMessage, env, <<>>)
  ELSE SearchResults(env, SearchQuery(idx, chatID, query, SearchLimit))

\* The outcomes of the calls of one /search.
SearchEnvs ==
  {AskEnv(FALSE, "administrator", searchFails, FALSE, <<>>, sendFails) :
     searchFails \in BOOLEAN, sendFails \in {0, 1}}

InitAsk ==
  /\ ConfigIdle
  /\ inflight = FlightIdle
  /\ retr = RetrIdle
  /\ indexing = IndexingIdle
  /\ CleanIdle
  /\ GroupIdle
  /\ IngestIdle

\* A message of the model is delivered to a group and ingested.
Deliver ==
  \E chat \in GroupChats \cup {ChatBasicOfSuper}, id \in MessageIDs :
    /\ nUpdates < MaxAskUpdates
    /\ ask = AskIdle
    /\ ~IsCommand(TgMessage(id, chat, AuthorOf(id), CorpusText(id)))
    /\ StoreLive(chat, id, CorpusText(id), [storeFails |-> FALSE, engine |-> EngineOK], 0)

\* The loop of main on the command /ask: handleCommand calls
\* HandleAskCommand and, when it returns an error, logs it and sends nothing.
Ask ==
  \E chat \in GroupChats \cup {ChatBasicOfSuper}, text \in AskTexts, env \in AskEnvs :
    LET msg == TgMessage(9, chat, UserAl, text)
    IN  /\ nUpdates < MaxAskUpdates
        /\ ask = AskIdle
        /\ IsCommand(msg)
        /\ Command(msg) = Tail(AskCommand)
        /\ now' = now + 15
        /\ ask' = [msg |-> msg, env |-> env,
                   res |-> handleCommandAsk(HandleAskCommand(index, msg, env))]
        /\ last' = [LastNone EXCEPT !.op = "command", !.message = msg,
                                    !.storeBefore = store, !.indexBefore = index]
        /\ nUpdates' = nUpdates + 1
        /\ UNCHANGED <<store, index, backfill, cleanVars, groupVars, configVars, inflight, retr, indexing>>

\* The loop of main on the command /search.
Search ==
  \E chat \in GroupChats, text \in SearchTexts, env \in SearchEnvs :
    LET msg == TgMessage(9, chat, UserAl, text)
    IN  /\ nUpdates < MaxAskUpdates
        /\ ask = AskIdle
        /\ IsCommand(msg)
        /\ Command(msg) = <<"s", "e", "a", "r", "c", "h">>
        /\ now' = now + 15
        /\ ask' = [msg |-> msg, env |-> env,
                   res |-> SearchCommand(index, msg.Chat.ID, CommandArguments(msg), env)]
        /\ last' = [LastNone EXCEPT !.op = "command", !.message = msg,
                                    !.storeBefore = store, !.indexBefore = index]
        /\ nUpdates' = nUpdates + 1
        /\ UNCHANGED <<store, index, backfill, cleanVars, groupVars, configVars, inflight, retr, indexing>>

NextAsk ==
  \/ Deliver
  \/ Ask
  \/ Search

SpecAsk == InitAsk /\ [][NextAsk]_vars

\* The /ask just handled was answered with a list of discussions.
Answered == ask.res.outcome = "answer"

\* The number of messages rendered before conversation i.
RECURSIVE RenderedBefore(_, _)
RenderedBefore(conversations, i) ==
  IF i <= 1 THEN 0
  ELSE RenderedBefore(conversations, i - 1) + Len(conversations[i - 1])

\* The bytes of the text that the span of an entity covers.
SpanText(text, entity) == SubSeq(text, entity.Offset + 1, entity.Offset + entity.Length)

\* The answer was sent as rendered, one entity per rendered message.
SentAsRendered ==
  /\ ask.res.sent[1].text = ask.res.response
  /\ ask.res.sent[1].entities = ask.res.entities
  /\ Len(ask.res.entities) = Len(ask.res.relevantMessages)

\* C2 (as stated): in every answer the span of every message, as a byte
\* range of the answer text, is exactly the '@handle: text' of that message.
C2_SpanIsHandleAndText ==
  Answered =>
    /\ SentAsRendered
    /\ \A i \in 1..Len(ask.res.allConversations) :
         \A j \in 1..Len(ask.res.allConversations[i]) :
           SpanText(ask.res.response,
                    ask.res.entities[RenderedBefore(ask.res.allConversations, i) + j])
           = MessageLine(ask.res.allConversations[i][j])

\* C2 (amended): in every answer the span of every message, as a byte range
\* of the answer text, is exactly the line written for that message without
\* its newline: 'N. @handle: text' for the first message of conversation N
\* and '@handle: text' for the others.
C2_SpanIsLineWritten ==
  Answered =>
    /\ SentAsRendered
    /\ \A i \in 1..Len(ask.res.allConversations) :
         \A j \in 1..Len(ask.res.allConversations[i]) :
           SpanText(ask.res.response,
                    ask.res.entities[RenderedBefore(ask.res.allConversations, i) + j])
           = (IF j = 1 THEN Itoa(i) \o <<".", SP>> ELSE <<>>)
             \o MessageLine(ask.res.allConversations[i][j])

\* An answer was sent whose only conversation has two messages, the first
\* numbered; the span of the second is its '@handle: text'.
C2_Witness ==
  /\ Answered
  /\ ask.env.sendFails = 0
  /\ Len(ask.res.allConversations) = 1
  /\ Len(ask.res.allConversations[1]) = 2
  /\ SpanText(ask.res.response, ask.res.entities[2])
     = MessageLine(ask.res.allConversations[1][2])
  /\ SpanText(ask.res.response, ask.res.entities[1])
     = <<"1", ".", SP>> \o MessageLine(ask.res.allConversations[1][1])

\* The cleaned output has no '{' before a '}' or does not parse as the
\* object.
MalformedCleaned(cleaned) ==
  \/ ~\E i, j \in 1..Len(cleaned) : i < j /\ cleaned[i] = "{" /\ cleaned[j] = "}"
  \/ Unmarshal(cleaned).err

\* The output of the completion model, once cleaned, is malformed.
Malformed(analysis) == MalformedCleaned(cleanJSONResponse(analysis))

\* The retrieved message shares a significant term with the question.
SharesTerm(question, message) ==
  hasCommonTerms(extractSignificantTerms(question), extractSignificantTerms(message.Text))

\* The completion model answered the /ask just handled.
Analysed == ask.res.asked /\ ~ask.env.aiFails

\* C4: malformed model output is never fatal.  Whenever the output of the
\* completion model is malformed, the handler returns no error but that of
\* a send that failed, and goes on with the significant terms of the
\* question: the line of every retrieved message that shares one of them is
\* among the relevant lines and is rendered in an answer; without any
\* relevant line the nothing-found message is sent.
C4_MalformedOutputFallsBack ==
  (Analysed /\ Malformed(ask.env.analysis)) =>
    LET matching == {k \in 1..Len(ask.res.messages) :
                       SharesTerm(ask.res.question, ask.res.messages[k])}
    IN  /\ ask.res.parseErr
        /\ Len(ask.res.sent) >= 1
        /\ ask.res.err = (IF ask.env.sendFails >= Len(ask.res.sent) THEN "send" ELSE ErrNil)
        /\ ask.res.outcome = (IF Len(ask.res.lines) = 0 THEN "nothing_found" ELSE "answer")
        /\ ask.res.outcome = "nothing_found" => ask.res.sent[1].text = NothingFoundMessage
        /\ \A k \in matching :
             /\ \E l \in 1..Len(ask.res.lines) :
                  ask.res.lines[l] = MessageLine(ask.res.messages[k])
             /\ \E r \in 1..Len(ask.res.relevantMessages) :
                  /\ ask.res.relevantMessages[r].Username = ask.res.messages[k].Username
                  /\ ask.res.relevantMessages[r].Text = ask.res.messages[k].Text

\* The completion model returned an object that is cut off; the question
\* names both messages of the group and both were answered.
C4_Witness ==
  /\ Analysed
  /\ ask.env.analysis = AnalysisUnclosed
  /\ Malformed(ask.env.analysis)
  /\ ask.res.outcome = "answer"
  /\ ask.res.err = ErrNil
  /\ Len(ask.res.relevantMessages) = 2

C7_CloseMessagesShareConversation ==
  Answered =>
    \A a, b \in 1..Len(ask.res.relevantMessages) :
      LET ma == ask.res.relevantMessages[a]
          mb == ask.res.relevantMessages[b]
      IN  (/\ ma.Username # mb.Username
           /\ ma.ChatID = mb.ChatID
           /\ ma.CreatedAt - mb.CreatedAt < conversationTimeout
           /\ mb.CreatedAt - ma.CreatedAt < conversationTimeout)
          => \E c \in 1..Len(ask.res.allConversations) :
               /\ \E j \in 1..Len(ask.res.allConversations[c]) :
                    ask.res.allConversations[c][j] = ma
               /\ \E j \in 1..Len(ask.res.allConversations[c]) :
                    ask.res.allConversations[c][j] = mb

\* C9 (as stated): whenever there is no conversation to render, the user
\* gets the nothing-found message and never an answer with an empty list.
C9_NothingFoundWhenNoConversation ==
  (Analysed /\ Len(ask.res.allConversations) = 0) =>
    /\ ask.res.outcome = "nothing_found"
    /\ Len(ask.res.sent) = 1
    /\ ask.res.sent[1].text = NothingFoundMessage

\* The index search of the command just handled returned its messages.
Searched == ask.res.searched /\ ~ask.env.searchFails

\* No identity key (group id, message id) occurs twice in the result.
NoKeyTwice(messages) ==
  \A a, b \in 1..Len(messages) :
    (messages[a].ChatID = messages[b].ChatID /\ messages[a].MessageID = messages[b].MessageID)
    => a = b

\* C11 (as stated): a search in the supergroup -100<N> returns, besides the
\* documents stored under that id, the documents stored under -<N>, and no
\* identity key occurs twice in the result.
C11_SupergroupMerge ==
  (Searched /\ ask.msg.Chat = ChatSuper) =>
    /\ NoKeyTwice(ask.res.messages)
    /\ \A i \in 1..Len(index) :
         (/\ index[i].chat_id \in {SuperChat, ChatBasicOfSuper.ID}
          /\ ask.res.outcome \in {"search_found", "search_none"}
             => MatchesQuery(index[i].text, CommandArguments(ask.msg)))
         => \E k \in 1..Len(ask.res.messages) :
              /\ ask.res.messages[k].ChatID = index[i].chat_id
              /\ ask.res.messages[k].MessageID = index[i].message_id

\* The step just taken ingested a message that has text and storeMessage
\* returned nil.
IngestedText == Ingested /\ last.err = ErrNil /\ last.message.Text # <<>>

\* The document of the message just ingested, fetched by its identity key
\* and decoded as the retriever decodes a hit; <<>> when there is none.
FetchedBack ==
  IF FindDocument(index, MessageUID(NewMessage(last.message, last.at))) = 0 THEN <<>>
  ELSE <<DecodeHit(index[FindDocument(index, MessageUID(NewMessage(last.message, last.at)))])>>

\* C12 (as stated): after an ingest of a message with text that returns
\* success, the document fetched by identity key and decoded as the
\* retriever does equals the ingested message in every field, the creation
\* timestamp included.
C12_UpsertRoundTrip ==
  IngestedText => FetchedBack = <<NewMessage(last.message, last.at)>>

\* The two messages share no significant term.
NoSharedTerms(p, c) ==
  ~hasCommonTerms(extractSignificantTerms(p.Text), extractSignificantTerms(c.Text))

\* The seconds from the earlier message p to the later message c.
SecondsApart(p, c) == c.CreatedAt - p.CreatedAt

\* C13: grouping threshold.  Of two chronologically adjacent messages, the
\* later is not the first of a new conversation when they are 10 seconds
\* apart and share no terms, and the later is not in the conversation of the
\* earlier when they are 10 minutes apart, share no terms and show no reply
\* pattern.
C13_GroupingThreshold ==
  groupPc = "done" =>
    /\ \A k \in 1..(Len(groupOut) - 1) :
         ~(/\ SecondsApart(groupOut[k][Len(groupOut[k])], groupOut[k + 1][1]) = 10
           /\ NoSharedTerms(groupOut[k][Len(groupOut[k])], groupOut[k + 1][1]))
    /\ \A k \in 1..Len(groupOut) :
         \A j \in 1..(Len(groupOut[k]) - 1) :
           ~(/\ SecondsApart(groupOut[k][j], groupOut[k][j + 1]) = 600
             /\ NoSharedTerms(groupOut[k][j], groupOut[k][j + 1])
             /\ ~isDirectReply(groupOut[k][j].Text, groupOut[k][j + 1].Text))

\* Three messages that share no terms, at 0, 10 and 610 seconds: the first
\* two are one conversation, the third is another.
C13_Witness ==
  /\ groupPc = "done"
  /\ Len(groupIn) = 3
  /\ Len(groupOut) = 2
  /\ Len(groupOut[1]) = 2
  /\ SecondsApart(groupOut[1][1], groupOut[1][2]) = 10
  /\ NoSharedTerms(groupOut[1][1], groupOut[1][2])
  /\ SecondsApart(groupOut[1][2], groupOut[2][1]) = 600
  /\ NoSharedTerms(groupOut[1][2], groupOut[2][1])
  /\ ~isDirectReply(groupOut[1][2].Text, groupOut[2][1].Text)

\* C14 (as stated): an ingest of an identity key that is already stored,
\* duplicate or edit, changes no field of its document other than the text
\* (author id, author handle and creation timestamp stay as first stored)
\* and changes no other document, in the store as in the index.
C14_ImmutableExceptText ==
  Ingested =>
    /\ \A i \in 1..Len(last.storeBefore) :
         \/ store[i] = last.storeBefore[i]
         \/ /\ i \in StoredAt(last.storeBefore, last.message.Chat.ID, last.message.MessageID)
            /\ store[i] = [last.storeBefore[i] EXCEPT !.doc.Text = last.message.Text]
    /\ \A i \in 1..Len(last.indexBefore) :
         \/ index[i] = last.indexBefore[i]
         \/ /\ i \in IndexedAt(last.indexBefore, last.message.Chat.ID, last.message.MessageID)
            /\ index[i] = [last.indexBefore[i] EXCEPT !.text = last.message.Text]

\* The command just handled is /ask.
IsAsk == ask # AskIdle /\ Command(ask.msg) = Tail(AskCommand)

\* C15: missing capability.  When the transport reports that the bot is no
\* administrator of the group, /ask sends the administrator-remediation
\* message and nothing else; that message is neither the nothing-found
\* message nor the generic failure message; and the handler issues no index
\* search and no call of the completion model.
C15_MissingCapability ==
  (IsAsk /\ ~ask.env.memberFails /\ ask.env.status # "administrator") =>
    /\ Len(ask.res.sent) = 1
    /\ ask.res.sent[1].text = AdminMessage
    /\ ask.res.sent[1].text # NothingFoundMessage
    /\ ask.res.sent[1].text # AskFailureMessage
    /\ ask.res.sent[1].text # NoMessagesMessage
    /\ ~ask.res.searched
    /\ ~ask.res.asked
    /\ ask.res.messages = <<>>

\* The bot is a plain member of a group whose messages are indexed; a
\* question that names one of them got the remediation message.
C15_Witness ==
  /\ IsAsk
  /\ ask.env.status = "member"
  /\ ask.env.sendFails = 0
  /\ ask.msg.Text = TextAskDocker
  /\ \E i \in 1..Len(index) : index[i].chat_id = ask.msg.Chat.ID
  /\ ask.res.outcome = "not_admin"
  /\ ask.res.sent = <<Sent(AdminMessage, <<>>, 1, 0)>>

(***************************************************************************)
(* SpecConfig: processes calling NewMeiliSearch on one engine              *)
(***************************************************************************)

\* How often the first process calls NewMeiliSearch (it is restarted); the
\* second process calls it once.
MaxRuns == 2

RunsOf(c) == IF c = 1 THEN MaxRuns ELSE 1

\* How many documents are indexed between the calls.
MaxConfigDocs == 1

InitConfig ==
  /\ CleanIdle
  /\ GroupIdle
  /\ IngestIdle
  /\ ConfigIdle
  /\ inflight = FlightIdle
  /\ retr = RetrIdle
  /\ indexing = IndexingIdle

\* The position after the settings update k and its wait.
AfterCall(caller, k, settings) ==
  IF k < Len(ConfigCalls)
  THEN [caller EXCEPT !.pc = "call", !.k = k + 1]
  ELSE [caller EXCEPT !.pc = "done", !.runs = @ + 1,
                      !.first = IF caller.runs = 0 THEN settings ELSE @]

\* NewMeiliSearch up to its branch: GetStats returns an error when the index
\* does not exist, and may return one when it does (the engine was not
\* reached); on an error the index is created, otherwise it is configured.
GetStats ==
  \E c \in Callers, err \in BOOLEAN :
    /\ callers[c].pc \in {"idle", "done"}
    /\ callers[c].runs < RunsOf(c)
    /\ ~meili.exists => err
    /\ callers' = [callers EXCEPT ![c] = [@ EXCEPT !.pc = IF err THEN "create" ELSE "call",
                                                   !.k = IF err THEN 0 ELSE 1,
                                                   !.absent = ~meili.exists, !.created = FALSE]]
    /\ UNCHANGED <<meili, cleanVars, groupVars, ingestVars, ask, inflight, retr, indexing>>

\* client.CreateIndex: the creation task is enqueued and never waited for.
CreateIndex ==
  \E c \in Callers :
    /\ callers[c].pc = "create"
    /\ meili' = Enqueue(meili, "indexCreation", CreateIndexConfig)
    /\ callers' = [callers EXCEPT ![c] = [@ EXCEPT !.pc = "call", !.k = 1,
                                                   !.created = TRUE]]
    /\ UNCHANGED <<cleanVars, groupVars, ingestVars, ask, inflight, retr, indexing>>

\* One of the settings updates: its task is enqueued.
UpdateSetting ==
  \E c \in Callers :
    /\ callers[c].pc = "call"
    /\ meili' = Enqueue(meili, ConfigCalls[callers[c].k].kind, ConfigCalls[callers[c].k].value)
    /\ callers' = [callers EXCEPT ![c] = [@ EXCEPT !.pc = "wait", !.task = meili.nextUID]]
    /\ UNCHANGED <<cleanVars, groupVars, ingestVars, ask, inflight, retr, indexing>>

\* meiliIndex.WaitForTask returns once the task was processed; its result is
\* dropped.  After the last one NewMeiliSearch returns the client.
WaitForTask ==
  \E c \in Callers :
    /\ callers[c].pc = "wait"
    /\ Processed(meili, callers[c].task)
    /\ callers' = [callers EXCEPT ![c] = AfterCall(@, callers[c].k, meili.settings)]
    /\ UNCHANGED <<meili, cleanVars, groupVars, ingestVars, ask, inflight, retr, indexing>>

\* The engine processes the oldest task of its queue.
ProcessTask ==
  /\ meili.queue # <<>>
  /\ LET r == ApplyTask([meili EXCEPT !.queue = Tail(@)], index, Head(meili.queue))
     IN  /\ meili' = r.meili
         /\ index' = r.index
  /\ UNCHANGED <<callers, store, now, nUpdates, backfill, last, cleanVars, groupVars, ask, inflight, retr, indexing>>

\* A process that holds the client indexes a message, while the engine has
\* no other task to process.
IndexDocument ==
  \E c \in Callers, id \in MessageIDs :
    /\ callers[c].pc = "done"
    /\ meili.queue = <<>>
    /\ Len(index) < MaxConfigDocs
    /\ index' = IndexMessage(index,
                             NewMessage(TgMessage(id, ChatSuper, AuthorOf(id), CorpusText(id)),
                                        Time(15, 0)),
                             EngineOK).index
    /\ UNCHANGED <<meili, callers, store, now, nUpdates, backfill, last, cleanVars,
                   groupVars, ask, inflight, retr, indexing>>

NextConfig ==
  \/ GetStats
  \/ CreateIndex
  \/ UpdateSetting
  \/ WaitForTask
  \/ ProcessTask
  \/ IndexDocument

SpecConfig == InitConfig /\ [][NextConfig]_vars

\* The step is one of NewMeiliSearch or of a task it enqueued.
ConfigStep == callers' # callers \/ meili' # meili

FullyConfigured(settings) ==
  \A k \in 1..Len(ConfigCalls) : UpdatedSettings(settings, ConfigCalls[k]) = settings

C17_SearchFailureReported ==
  (IsAsk /\ ask.res.searched /\ ask.env.sendFails = 0) =>
    /\ ask.env.searchFails =>
         /\ Len(ask.res.sent) = 1
         /\ ask.res.sent[1].text = AskFailureMessage
         /\ ask.res.sent[1].ok
    /\ (~ask.env.searchFails /\ ask.res.messages = <<>>) =>
         /\ ask.res.sent = <<Sent(NoMessagesMessage, <<>>, 1, 0)>>
         /\ ask.res.err = ErrNil
         /\ NoMessagesMessage # AskFailureMessage

\* The earlier text ends with a question mark and the later has fewer than
\* five words.
ShortAnswer(p, c) == HasSuffix(p.Text, <<"?">>) /\ Len(Fields(c.Text)) < 5

\* A word of the later text, lower-cased, contains a word of the earlier
\* text, lower-cased and with its punctuation, that is longer than 3 bytes and
\* no stop-word.
RepeatsWord(p, c) ==
  \E currWord \in Range(Fields(ToLower(c.Text))) :
    \E prevWord \in Range(Fields(ToLower(p.Text))) :
      /\ Len(prevWord) > 3
      /\ ~isCommonWord(prevWord)
      /\ Contains(currWord, prevWord)

\* The relation of the claim as stated.
RelatedAsStated(p, c) ==
  \/ SecondsApart(p, c) < conversationTimeout
  \/ ShortAnswer(p, c)
  \/ ~NoSharedTerms(p, c)

\* The relation with the timeout included and the repeated word added.
RelatedAsCoded(p, c) ==
  \/ SecondsApart(p, c) <= conversationTimeout
  \/ ShortAnswer(p, c)
  \/ RepeatsWord(p, c)
  \/ ~NoSharedTerms(p, c)

\* C18 (as stated): of two chronologically adjacent messages, the later is
\* in the conversation of the earlier if and only if their timestamps differ
\* by strictly less than the conversation timeout, or the earlier ends with
\* '?' and the later has fewer than 5 words, or their significant terms
\* overlap exactly or as substrings; otherwise the later opens a new
\* conversation.
C18_GroupingRelation ==
  groupPc = "done" =>
    /\ \A k \in 1..Len(groupOut) :
         \A j \in 1..(Len(groupOut[k]) - 1) :
           RelatedAsStated(groupOut[k][j], groupOut[k][j + 1])
    /\ \A k \in 1..(Len(groupOut) - 1) :
         ~RelatedAsStated(groupOut[k][Len(groupOut[k])], groupOut[k + 1][1])

\* C18 (amended): of two chronologically adjacent messages, the later is in
\* the conversation of the earlier if and only if their timestamps differ by
\* at most the conversation timeout, or the earlier ends with '?' and the
\* later has fewer than 5 words, or a word of the later contains a word of
\* the earlier that, lower-cased and unstripped, is longer than 3 bytes and
\* no stop-word, or their significant terms overlap exactly or as
\* substrings; otherwise the later opens a new conversation.
C18_GroupingRelationAsCoded ==
  groupPc = "done" =>
    /\ \A k \in 1..Len(groupOut) :
         \A j \in 1..(Len(groupOut[k]) - 1) :
           RelatedAsCoded(groupOut[k][j], groupOut[k][j + 1])
    /\ \A k \in 1..(Len(groupOut) - 1) :
         ~RelatedAsCoded(groupOut[k][Len(groupOut[k])], groupOut[k + 1][1])

\* Three messages: the second 120 seconds after the first, sharing nothing
\* with it; the third 480 seconds later, repeating a word of the second that
\* is no significant term; all three are one conversation.
C18_Witness ==
  /\ groupPc = "done"
  /\ Len(groupOut) = 1
  /\ Len(groupOut[1]) = 3
  /\ SecondsApart(groupOut[1][1], groupOut[1][2]) = conversationTimeout
  /\ ~ShortAnswer(groupOut[1][1], groupOut[1][2])
  /\ ~RepeatsWord(groupOut[1][1], groupOut[1][2])
  /\ NoSharedTerms(groupOut[1][1], groupOut[1][2])
  /\ SecondsApart(groupOut[1][2], groupOut[1][3]) > conversationTimeout
  /\ ~ShortAnswer(groupOut[1][2], groupOut[1][3])
  /\ NoSharedTerms(groupOut[1][2], groupOut[1][3])
  /\ RepeatsWord(groupOut[1][2], groupOut[1][3])

(***************************************************************************)
(* SpecConcurrent: the loop of main and the backfill goroutine, each       *)
(* inside its own call of storeMessage.  What the two share is the store   *)
(* and the index; the message model a call builds and the counter of the   *)
(* goroutine are its own.  The index processes its tasks one at a time.    *)
(* The store runs the UpdateOne of each call on its own: it looks for a    *)
(* document that matches the filter, then updates the one it found or      *)
(* inserts one; no unique index on the collection makes it look again.     *)
(***************************************************************************)

\* How many updates the loop of main takes.
MaxConcUpdates == 2

InitConcurrent ==
  /\ ConfigIdle
  /\ inflight = FlightIdle
  /\ retr = RetrIdle
  /\ indexing = IndexingIdle
  /\ CleanIdle
  /\ GroupIdle
  /\ IngestIdle

\* The identity key of a message model.
KeyOf(msg) == [chatID |-> msg.ChatID, id |-> msg.MessageID]

\* UpdateOne with upsert once the store has settled on the document that
\* matches the filter: the document at that place is set, or one is inserted.
Upsert(docs, msg, at) ==
  IF at = 0
  THEN Append(docs, [collection |-> getGroupCollection(msg.ChatID), doc |-> msg])
  ELSE [docs EXCEPT ![at] = [collection |-> getGroupCollection(msg.ChatID), doc |-> msg]]

\* storeMessage up to the point where the store has looked for the document
\* of the filter {message_id, chat_id}: the model is built at time.Now();
\* when StoreMessage is to fail the call returns.
MatchStep(who, message, fault) ==
  LET msg == NewMessage(message, Time(now', 0))
  IN  /\ ~inflight[who].busy
      /\ inflight' = [inflight EXCEPT
                        ![who] = IF fault.storeFails THEN NoCall
                                 ELSE [busy |-> TRUE, stored |-> FALSE,
                                       at |-> FindStored(store, getGroupCollection(msg.ChatID),
                                                         msg),
                                       msg |-> msg, engine |-> fault.engine]]

\* The store updates the document it found or inserts one: StoreMessage
\* returns nil.
WriteStep(who) ==
  LET call == inflight[who]
  IN  /\ call.busy
      /\ ~call.stored
      /\ store' = Upsert(store, call.msg, call.at)
      /\ inflight' = [inflight EXCEPT ![who] = [@ EXCEPT !.stored = TRUE]]

\* The second half of storeMessage: the model is indexed; the call has
\* ingested the message when IndexMessage returned nil.
IndexStep(who) ==
  LET call == inflight[who]
      r == IndexMessage(index, call.msg, call.engine)
  IN  /\ call.busy
      /\ call.stored
      /\ index' = r.index
      /\ inflight' = [inflight EXCEPT
                        ![who] = NoCall,
                        !.ingested = IF r.err = ErrNil
                                     THEN @ \cup {[key |-> KeyOf(call.msg), by |-> who]}
                                     ELSE @]

\* The loop of main takes a message of a group and enters storeMessage.
MainMatch ==
  \E chat \in GroupChats, id \in MessageIDs, text \in IngestTexts, fault \in Faults :
    /\ nUpdates < MaxConcUpdates
    /\ IsGroupChat(chat)
    /\ now' = now + 15
    /\ MatchStep("main", TgMessage(id, chat, AuthorOf(id), text), fault)
    /\ nUpdates' = nUpdates + 1
    /\ UNCHANGED <<store, index, backfill, last, cleanVars, groupVars, configVars, ask, retr, indexing>>

MainWrite ==
  /\ WriteStep("main")
  /\ UNCHANGED <<index, now, nUpdates, backfill, last, cleanVars, groupVars, configVars, ask, retr, indexing>>

\* The loop of main finishes its storeMessage.
MainIndex ==
  /\ IndexStep("main")
  /\ UNCHANGED <<store, now, nUpdates, backfill, last, cleanVars, groupVars, configVars, ask, retr, indexing>>

\* handleChatMemberUpdate between two messages: the bot became administrator
\* and the goroutine is started with the history it fetched.
StartBackfill ==
  \E chat \in GroupChats :
    \E recent \in Recents(chat) :
      /\ nUpdates < MaxConcUpdates
      /\ ~inflight.main.busy
      /\ ~backfill.active
      /\ GetChatHistory(recent) # <<>>
      /\ now' = now + 15
      /\ backfill' = [active |-> TRUE, chat |-> chat, queue |-> Reverse(GetChatHistory(recent)),
                      storedCount |-> 0]
      /\ nUpdates' = nUpdates + 1
      /\ UNCHANGED <<store, index, last, inflight, cleanVars, groupVars, configVars, ask, retr, indexing>>

\* The message is counted and the loop of the goroutine goes on.
Counted(b) ==
  IF Tail(b.queue) = <<>> THEN BackfillIdle
  ELSE [b EXCEPT !.queue = Tail(@), !.storedCount = @ + 1]

\* The goroutine enters storeMessage with the oldest message left.
BackfillMatch ==
  \E fault \in Faults :
    /\ backfill.active
    /\ backfill.queue # <<>>
    /\ Head(backfill.queue).Text # <<>>
    /\ now' = now
    /\ MatchStep("backfill", Head(backfill.queue), fault)
    /\ backfill' = IF fault.storeFails THEN Counted(backfill) ELSE backfill
    /\ UNCHANGED <<store, index, nUpdates, last, cleanVars, groupVars, configVars, ask, retr, indexing>>

BackfillWrite ==
  /\ WriteStep("backfill")
  /\ UNCHANGED <<index, now, nUpdates, backfill, last, cleanVars, groupVars, configVars, ask, retr, indexing>>

\* The goroutine finishes its storeMessage and counts the message.
BackfillIndex ==
  /\ IndexStep("backfill")
  /\ backfill' = Counted(backfill)
  /\ UNCHANGED <<store, now, nUpdates, last, cleanVars, groupVars, configVars, ask, retr, indexing>>

NextConcurrent ==
  \/ MainMatch
  \/ MainWrite
  \/ MainIndex
  \/ StartBackfill
  \/ BackfillMatch
  \/ BackfillWrite
  \/ BackfillIndex

SpecConcurrent == InitConcurrent /\ [][NextConcurrent]_vars

\* The identity keys of the documents of the store and of the index.
KeysHeld ==
  {KeyOf(store[i].doc) : i \in 1..Len(store)}
  \cup {[chatID |-> index[i].chat_id, id |-> index[i].message_id] : i \in 1..Len(index)}

\* C19 (as stated): while the loop of main and the backfill goroutine ingest
\* concurrently, in every interleaving of their store and index steps, both
\* ingesting the same (groupID, messageID) included, the store and the index
\* hold at most one document per identity key and exactly one for every
\* message that a call of storeMessage of either has ingested; and no step
\* of one of the two changes the call under way or the counter of the other.
C19_ConcurrentIngestion ==
  /\ [](/\ \A key \in KeysHeld :
             /\ Cardinality(StoredAt(store, key.chatID, key.id)) <= 1
             /\ Cardinality(IndexedAt(index, key.chatID, key.id)) <= 1
        /\ \A e \in inflight.ingested :
             /\ Cardinality(StoredAt(store, e.key.chatID, e.key.id)) = 1
             /\ Cardinality(IndexedAt(index, e.key.chatID, e.key.id)) = 1)
  /\ [][/\ inflight'.main # inflight.main =>
             (inflight'.backfill = inflight.backfill /\ backfill' = backfill)
        /\ inflight'.backfill # inflight.backfill => inflight'.main = inflight.main]_vars

(***************************************************************************)
(* SpecRetrieve: SearchMessages(ctx, searchReq) and fetchMessageContext of *)
(* internal/search on the hits the engine returns.  A hit is a JSON object *)
(* of which every field may be absent or of another type than expected.    *)
(***************************************************************************)

\* A hit of the engine: lacks names the fields that are absent from it or
\* fail the type assertion of the decoding.
RawHit(message_id, chat_id, user_id, username, text, created_at) ==
  [message_id |-> message_id, chat_id |-> chat_id, user_id |-> user_id,
   username |-> username, text |-> text, created_at |-> created_at, lacks |-> {}]

\* The assertion on field f of the hit fails.
Missing(doc, f) == f \in doc.lacks

\* The second of time.Time{}, the CreatedAt of a message whose hit carried no
\* created_at: it lies before every time of the model.
ZeroTime == -1000000

\* const contextWindow = 30 * time.Second.
contextWindow == 30

\* Limit: 5 of the context request.
ContextLimit == 5

\* A decoding that takes every hit, whatever it lacks.
SearchDecodeAll(doc) ==
  <<Message(IF Missing(doc, "message_id") THEN 0 ELSE doc.message_id,
            IF Missing(doc, "chat_id") THEN Int64(FALSE, 0, 0) ELSE doc.chat_id,
            [UserID |-> IF Missing(doc, "user_id") THEN 0 ELSE doc.user_id,
             Username |-> IF Missing(doc, "username") THEN <<>> ELSE doc.username],
            IF Missing(doc, "text") THEN <<>> ELSE doc.text,
            IF Missing(doc, "created_at") THEN ZeroTime ELSE doc.created_at)>>

\* The loop body of SearchMessages on one hit: the hit is skipped when
\* message_id, chat_id, username or text fails its assertion; user_id and
\* created_at stay zero when they fail theirs.
SearchDecode(doc) ==
  IF \/ Missing(doc, "message_id")
     \/ Missing(doc, "chat_id")
     \/ Missing(doc, "username")
     \/ Missing(doc, "text")
  THEN <<>>
  ELSE <<Message(doc.message_id, doc.chat_id,
                 [UserID |-> IF Missing(doc, "user_id") THEN 0 ELSE doc.user_id,
                  Username |-> doc.username],
                 doc.text,
                 IF Missing(doc, "created_at") THEN ZeroTime ELSE doc.created_at)>>

RECURSIVE SearchDecodeLoop(_)
SearchDecodeLoop(hits) ==
  IF hits = <<>> THEN <<>> ELSE SearchDecode(Head(hits)) \o SearchDecodeLoop(Tail(hits))

\* SearchMessages(ctx, searchReq): one index.Search, which does not take the
\* context, then the decoding of the hits.
SearchMessagesCtx(response, ctxDone, searchFails) ==
  IF searchFails
  THEN [out |-> <<>>, err |-> "failed to search messages", searches |-> 1]
  ELSE [out |-> SearchDecodeLoop(response), err |-> ErrNil, searches |-> 1]

\* The loop body of fetchMessageContext on one hit: every field that fails
\* its assertion stays zero and the message is taken.
ContextDecode(doc) == SearchDecodeAll(doc)[1]

\* A map that keeps what it held.
PutBeside(unique, msg) == unique \cup {msg}

\* uniqueMessages[msg.GetSearchID()] = msg, on a map kept as the set of its
\* values.
Put(unique, msg) == {m \in unique : MessageUID(m) # MessageUID(msg)} \cup {msg}

RECURSIVE PutAll(_, _)
PutAll(unique, msgs) ==
  IF msgs = <<>> THEN unique ELSE PutAll(Put(unique, Head(msgs)), Tail(msgs))

\* The documents that the filter of the context request selects: those of
\* the chat whose created_at lies in the window around the message.
RECURSIVE SelectContext(_, _)
SelectContext(idx, msg) ==
  IF idx = <<>> THEN <<>>
  ELSE (IF /\ ~Missing(Head(idx), "chat_id")
           /\ Head(idx).chat_id = msg.ChatID
           /\ ~Missing(Head(idx), "created_at")
           /\ Head(idx).created_at >= msg.CreatedAt - contextWindow
           /\ Head(idx).created_at <= msg.CreatedAt + contextWindow
        THEN <<Head(idx)>> ELSE <<>>)
       \o SelectContext(Tail(idx), msg)

\* Sort: created_at:asc as the engine does it; hits of the same second keep
\* the order of the index.
RECURSIVE SortOldestFirst(_)
SortOldestFirst(hits) ==
  IF hits = <<>> THEN <<>>
  ELSE LET at == CHOOSE i \in 1..Len(hits) :
                   /\ \A j \in 1..Len(hits) : hits[i].created_at <= hits[j].created_at
                   /\ \A j \in 1..(i - 1) : hits[i].created_at < hits[j].created_at
       IN  <<hits[at]>>
           \o SortOldestFirst(SubSeq(hits, 1, at - 1) \o SubSeq(hits, at + 1, Len(hits)))

\* The messages of one context search.
ContextMessages(idx, msg) ==
  LET sorted == SortOldestFirst(SelectContext(idx, msg))
      hits == SubSeq(sorted, 1, Min(ContextLimit, Len(sorted)))
  IN  [i \in 1..Len(hits) |-> ContextDecode(hits[i])]

\* The loop of fetchMessageContext over the messages: the search of message
\* failAt returns an error, which ends the function.
RECURSIVE ContextLoop(_, _, _, _, _)
ContextLoop(idx, messages, i, unique, failAt) ==
  IF i > Len(messages)
  THEN [unique |-> unique, err |-> ErrNil, searches |-> Len(messages)]
  ELSE IF i = failAt
  THEN [unique |-> {}, err |-> "failed to fetch context", searches |-> i]
  ELSE ContextLoop(idx, messages, i + 1, PutAll(unique, ContextMessages(idx, messages[i])),
                   failAt)

\* The orders in which the map can be read out and sort.Slice with
\* CreatedAt.Before can leave it: every order without a later message before
\* an earlier one.
SortedReadouts(unique) ==
  {s \in [1..Cardinality(unique) -> unique] :
     /\ \A i, j \in 1..Cardinality(unique) : i # j => s[i] # s[j]
     /\ \A i \in 1..(Cardinality(unique) - 1) : ~Before(s[i + 1], s[i])}

\* fetchMessageContext up to the read-out of the map.
fetchMessageContext(idx, messages, failAt) ==
  ContextLoop(idx, messages, 1, PutAll({}, messages), failAt)

\* How many hits a response holds and how many messages are expanded.
MaxResponse == 2

MaxHits == 2

\* The hits of the model: three documents of the supergroup, one of the basic
\* group, and documents that lack a field.
HitQuestion == RawHit(1, SuperChat, 1, HandleAl, TextQuestion, 100)

HitYes == RawHit(2, SuperChat, 2, HandleBo, TextYes, 120)

HitDockerfile == RawHit(3, SuperChat, 1, HandleAl, TextDockerfile, 200)

RawHits ==
  {HitQuestion, HitYes, HitDockerfile,
   RawHit(1, BasicChat, 1, HandleAl, TextYes, 110),
   [HitYes EXCEPT !.lacks = {"message_id"}],
   [HitYes EXCEPT !.lacks = {"chat_id"}],
   [HitYes EXCEPT !.lacks = {"user_id"}],
   [HitYes EXCEPT !.lacks = {"username"}],
   [HitYes EXCEPT !.lacks = {"text"}],
   [HitYes EXCEPT !.lacks = {"created_at"}]}

\* The messages handed to fetchMessageContext: decoded hits, one of them with
\* a text the index no longer holds, one without a time.
ExpandedMessages ==
  {ContextDecode(HitQuestion), ContextDecode(HitYes), ContextDecode(HitDockerfile),
   ContextDecode([HitQuestion EXCEPT !.text = TextYes]),
   ContextDecode([HitYes EXCEPT !.lacks = {"created_at"}])}

InitRetrieve ==
  /\ ConfigIdle
  /\ indexing = IndexingIdle
  /\ inflight = FlightIdle
  /\ CleanIdle
  /\ GroupIdle
  /\ IngestIdle
  /\ \E op \in {"search", "context"}, response \in SeqsUpTo(RawHits, MaxResponse),
        hits \in SeqsUpTo(ExpandedMessages, MaxHits), failAt \in 0..MaxHits,
        ctxDone \in BOOLEAN :
       /\ op = "search" => (hits = <<>> /\ failAt <= 1)
       /\ op = "context" => (failAt <= Len(hits) /\ ~ctxDone)
       /\ retr = [RetrIdle EXCEPT !.pc = "start", !.op = op, !.response = response,
                                  !.hits = hits, !.failAt = failAt, !.ctxDone = ctxDone]

\* SearchMessages is called with a context that is done or not.
RunSearch ==
  /\ retr.pc = "start"
  /\ retr.op = "search"
  /\ LET r == SearchMessagesCtx(retr.response, retr.ctxDone, retr.failAt = 1)
     IN  retr' = [retr EXCEPT !.pc = "done", !.out = r.out, !.err = r.err,
                              !.searches = r.searches]
  /\ UNCHANGED <<cleanVars, groupVars, ingestVars, ask, configVars, inflight, indexing>>

\* The end of fetchMessageContext: the map is read out and sorted.
ReadOut(r) ==
  \E out \in SortedReadouts(r.unique) :
    retr' = [retr EXCEPT !.pc = "done", !.out = out, !.err = r.err, !.searches = r.searches]

\* fetchMessageContext is called on the messages.
RunContext ==
  /\ retr.pc = "start"
  /\ retr.op = "context"
  /\ ReadOut(fetchMessageContext(retr.response, retr.hits, retr.failAt))
  /\ UNCHANGED <<cleanVars, groupVars, ingestVars, ask, configVars, inflight, indexing>>

NextRetrieve ==
  \/ RunSearch
  \/ RunContext

SpecRetrieve == InitRetrieve /\ [][NextRetrieve]_vars

\* Two messages carry the same identity key.
SameKey(a, b) == a.ChatID = b.ChatID /\ a.MessageID = b.MessageID

\* C21: when fetchMessageContext returns without error, the sequence it
\* returns holds a message of the identity key of every message it was
\* given, holds no two messages of the same identity key, and is in
\* ascending order of timestamp.
C21_ContextExpansion ==
  (retr.pc = "done" /\ retr.op = "context" /\ retr.err = ErrNil) =>
    /\ \A i \in 1..Len(retr.hits) : \E j \in 1..Len(retr.out) : SameKey(retr.hits[i], retr.out[j])
    /\ \A i, j \in 1..Len(retr.out) : i # j => ~SameKey(retr.out[i], retr.out[j])
    /\ \A i \in 1..(Len(retr.out) - 1) : retr.out[i].CreatedAt <= retr.out[i + 1].CreatedAt

\* Two messages were expanded, one of them with a text the index no longer
\* holds; the index returned both and a third in the window; the three came
\* back once each, oldest first.
C21_Witness ==
  /\ retr.pc = "done"
  /\ retr.op = "context"
  /\ retr.err = ErrNil
  /\ retr.hits = <<ContextDecode(HitYes), ContextDecode([HitQuestion EXCEPT !.text = TextYes])>>
  /\ retr.response = <<HitYes, HitQuestion>>
  /\ retr.out = <<ContextDecode(HitQuestion), ContextDecode(HitYes)>>

\* The fields a hit is expected to carry with their types.
ExpectedFields == {"message_id", "chat_id", "username", "text", "created_at"}

WellTyped(doc) == doc.lacks \cap ExpectedFields = {}

RECURSIVE DecodeWellTyped(_)
DecodeWellTyped(hits) ==
  IF hits = <<>> THEN <<>>
  ELSE (IF WellTyped(Head(hits)) THEN <<ContextDecode(Head(hits))>> ELSE <<>>)
       \o DecodeWellTyped(Tail(hits))

\* C22: when the engine answers, the retriever returns no error and leaves
\* out every hit in which an expected field is missing or of the wrong type:
\* SearchMessages returns exactly the well-typed hits of the response, in
\* its order, and fetchMessageContext returns, beside the messages it was
\* given, only messages of well-typed hits.
C22_MalformedHitsDropped ==
  (retr.pc = "done" /\ retr.failAt = 0) =>
    /\ retr.err = ErrNil
    /\ retr.op = "search" => retr.out = DecodeWellTyped(retr.response)
    /\ retr.op = "context" =>
         \A j \in 1..Len(retr.out) :
           \/ \E i \in 1..Len(retr.hits) : retr.out[j] = retr.hits[i]
           \/ \E i \in 1..Len(retr.response) :
                /\ WellTyped(retr.response[i])
                /\ retr.out[j] = ContextDecode(retr.response[i])

\* C23: a retrieval whose context is cancelled or past its deadline issues
\* no index search.
C23_CancelledIssuesNoSearch ==
  (retr.pc = "done" /\ retr.ctxDone) => retr.searches = 0

\* C24: when the send of the answer with its link entities is rejected, the
\* same text is sent once more without entities, and the handler returns
\* the error of that second send: none when it is accepted.
C24_RenderingFallback ==
  (IsAsk /\ ask.res.outcome = "answer" /\ ~ask.res.sent[1].ok) =>
    /\ Len(ask.res.sent) = 2
    /\ ask.res.sent[1].entities = ask.res.entities
    /\ ask.res.sent[2].text = ask.res.sent[1].text
    /\ ask.res.sent[2].text = ask.res.response
    /\ ask.res.sent[2].entities = <<>>
    /\ (ask.res.err = ErrNil) <=> ask.res.sent[2].ok

\* The send with entities was rejected and the plain send accepted: the
\* handler returned no error.
C24_Witness ==
  /\ IsAsk
  /\ ask.res.outcome = "answer"
  /\ ask.res.entities # <<>>
  /\ ~ask.res.sent[1].ok
  /\ Len(ask.res.sent) = 2
  /\ ask.res.sent[2].ok
  /\ ask.res.err = ErrNil

\* The number of leading bytes the suffix of a chat id leaves out of its
\* decimal text: the four of "-100", or else the one of "-".
Stripped(text) ==
  IF HasPrefix(text, <<"-", "1", "0", "0">>) THEN 4
  ELSE IF HasPrefix(text, <<"-">>) THEN 1
  ELSE 0

\* C25: the link of every rendered message is https://t.me/c/{suffix}/{id}
\* with the id of that message and with the decimal text of its chat id
\* without a leading "-100", or else without a leading "-", as suffix; the
\* suffix holds no "-".
C25_DeepLinkSuffix ==
  Answered =>
    /\ Len(ask.res.entities) = Len(ask.res.relevantMessages)
    /\ \A k \in 1..Len(ask.res.entities) :
         LET text == FormatInt64(ask.res.relevantMessages[k].ChatID)
             suffix == SubSeq(text, Stripped(text) + 1, Len(text))
         IN  /\ "-" \notin Range(suffix)
             /\ ask.res.entities[k].URL =
                  LinkPrefix \o suffix \o <<"/">> \o Itoa(ask.res.relevantMessages[k].MessageID)

\* An answer in the group -7 links two of its messages: the suffix is 7.
C25_Witness ==
  /\ Answered
  /\ Len(ask.res.entities) = 2
  /\ \A k \in 1..2 :
       /\ ask.res.relevantMessages[k].ChatID = ChatBasicOfSuper.ID
       /\ ask.res.entities[k].URL =
            LinkPrefix \o <<"7", "/">> \o Itoa(ask.res.relevantMessages[k].MessageID)

(***************************************************************************)
(* SpecIndex: IndexMessage against the engine's task queue.  AddDocuments  *)
(* only enqueues a task; the engine processes it later and it ends as      *)
(* succeeded or failed; WaitForTask polls until then or gives up.          *)
(***************************************************************************)

\* How many calls of IndexMessage are followed.
MaxIndexCalls == 2

\* The texts a message is indexed with: a message indexed again may have
\* been edited.
IndexTexts == {TextQuestion, TextYes}

\* An index that NewMeiliSearch has created and configured.
ReadyMeili == [FreshMeili EXCEPT !.exists = TRUE, !.primaryKey = CreateIndexConfig.PrimaryKey]

InitIndex ==
  /\ CleanIdle
  /\ GroupIdle
  /\ IngestIdle
  /\ callers = [c \in Callers |-> CallerIdle]
  /\ meili = ReadyMeili
  /\ inflight = FlightIdle
  /\ retr = RetrIdle
  /\ indexing = IndexingIdle

\* The task of the call has left the queue.
TaskDone == Processed(meili, indexing.task)

\* What IndexMessage returns once WaitForTask returned the task: an error
\* unless the status is succeeded.
StatusCheck(failed) == IF failed THEN "indexing task failed" ELSE ErrNil

\* An IndexMessage that returns as soon as the task is enqueued.
AddedNoWait(call, uid) ==
  [call EXCEPT !.pc = "returned", !.task = uid, !.err = ErrNil,
               !.succeeded = @ \cup {call.msg}]

\* IndexMessage after index.AddDocuments returned the task: it goes on to
\* WaitForTask.
Added(call, uid) == [call EXCEPT !.pc = "wait", !.task = uid]

\* IndexMessage up to index.AddDocuments: the document is built and handed
\* to the engine, which enqueues a task or returns an error.
IndexAdd ==
  \E id \in MessageIDs, text \in IndexTexts, fails \in BOOLEAN :
    LET msg == NewMessage(TgMessage(id, ChatSuper, AuthorOf(id), text), Time(15, 0))
        call == [indexing EXCEPT !.msg = msg, !.calls = @ + 1]
    IN  /\ indexing.pc \in {"idle", "returned"}
        /\ indexing.calls < MaxIndexCalls
        /\ IF fails
           THEN /\ indexing' = [call EXCEPT !.pc = "returned", !.err = "add"]
                /\ UNCHANGED meili
           ELSE /\ meili' = Enqueue(meili, "documentAdditionOrUpdate", Document(msg))
                /\ indexing' = Added(call, meili.nextUID)
        /\ UNCHANGED <<callers, cleanVars, groupVars, ingestVars, ask, inflight, retr>>

\* The engine processes the oldest task: the document is added or replaced
\* and the task succeeded, or the task failed and the index is as before.
IndexProcess ==
  \E ok \in BOOLEAN :
    /\ meili.queue # <<>>
    /\ meili' = [meili EXCEPT !.queue = Tail(@),
                              !.failed = IF ok THEN @ ELSE @ \cup {Head(meili.queue).uid}]
    /\ index' = IF ok THEN AddDocuments(index, Head(meili.queue).value) ELSE index
    /\ UNCHANGED <<callers, store, now, nUpdates, backfill, last, cleanVars, groupVars, ask,
                   inflight, retr, indexing>>

\* index.WaitForTask returns the finished task and IndexMessage checks its
\* status and returns.
IndexWait ==
  /\ indexing.pc = "wait"
  /\ TaskDone
  /\ indexing' = [indexing EXCEPT
                    !.pc = "returned",
                    !.err = StatusCheck(indexing.task \in meili.failed),
                    !.succeeded = IF indexing.task \in meili.failed THEN @
                                  ELSE @ \cup {indexing.msg}]
  /\ UNCHANGED <<configVars, cleanVars, groupVars, ingestVars, ask, inflight, retr>>

\* index.WaitForTask gives up or cannot reach the engine: IndexMessage
\* returns its error, whatever becomes of the task.
IndexWaitFails ==
  /\ indexing.pc = "wait"
  /\ indexing' = [indexing EXCEPT !.pc = "returned", !.err = "wait"]
  /\ UNCHANGED <<configVars, cleanVars, groupVars, ingestVars, ask, inflight, retr>>

NextIndex ==
  \/ IndexAdd
  \/ IndexProcess
  \/ IndexWait
  \/ IndexWaitFails

SpecIndex == InitIndex /\ [][NextIndex]_vars

\* A search for the primary key of the message returns the document that
\* IndexMessage built for it.
Visible(msg) ==
  /\ FindDocument(index, MessageUID(msg)) # 0
  /\ index[FindDocument(index, MessageUID(msg))] = Document(msg)

\* C26: when IndexMessage returns nil, the task of its document has ended
\* as succeeded and the document is in the index; every message that was
\* indexed with success stays in the index under its key; and when the task
\* of the call has ended as failed, IndexMessage returns an error.
C26_WriteVisibility ==
  /\ (indexing.pc = "returned" /\ indexing.err = ErrNil) =>
       /\ TaskDone
       /\ indexing.task \notin meili.failed
       /\ Visible(indexing.msg)
  /\ \A m \in indexing.succeeded : FindDocument(index, MessageUID(m)) # 0
  /\ (indexing.pc = "returned" /\ indexing.err # "add" /\ TaskDone
      /\ indexing.task \in meili.failed) => indexing.err # ErrNil

\* The second call indexed message 1 again with another text; it returned
\* nil and the index holds the new text.
C26_Witness ==
  /\ indexing.pc = "returned"
  /\ indexing.calls = 2
  /\ indexing.err = ErrNil
  /\ Cardinality(indexing.succeeded) = 2
  /\ Len(index) = 1
  /\ Visible(indexing.msg)

\* The conversations one after the other.
RECURSIVE Concatenated(_)
Concatenated(conversations) ==
  IF conversations = <<>> THEN <<>>
  ELSE Head(conversations) \o Concatenated(Tail(conversations))

\* C27: the conversations groupMessagesByContext returns for a non-empty
\* slice, one after the other, are the messages of the slice in ascending
\* order of time, each message once; no conversation is empty; an empty
\* slice yields no conversations.
C27_GroupingPartition ==
  groupPc = "done" =>
    /\ groupIn = <<>> => groupOut = <<>>
    /\ groupIn # <<>> =>
         /\ Concatenated(groupOut) \in Arrangements(groupIn)
         /\ IsSortedByTime(Concatenated(groupOut))
         /\ \A c \in 1..Len(groupOut) : groupOut[c] # <<>>

\* Three messages handed over newest first came back as two conversations,
\* the oldest message first.
C27_Witness ==
  /\ groupPc = "done"
  /\ Len(groupIn) = 3
  /\ Before(groupIn[3], groupIn[2])
  /\ Before(groupIn[2], groupIn[1])
  /\ Len(groupOut) = 2
  /\ Concatenated(groupOut) = <<groupIn[3], groupIn[2], groupIn[1]>>

\* The number of message lines of an answer.
RenderedLines(conversations) == RenderedBefore(conversations, Len(conversations) + 1)

\* C28: an answer carries one link span per rendered message line; the
\* spans are not empty, each begins where or after the one before it ends,
\* so that the offsets grow strictly and no two spans overlap; and each ends
\* before the tip that closes the answer text.
C28_LinkSpansWellFormed ==
  Answered =>
    /\ Len(ask.res.entities) = RenderedLines(ask.res.allConversations)
    /\ \A k \in 1..Len(ask.res.entities) :
         /\ ask.res.entities[k].Offset >= 0
         /\ ask.res.entities[k].Length > 0
         /\ ask.res.entities[k].Offset + ask.res.entities[k].Length
              <= Len(ask.res.response) - Len(TipText)
    /\ \A k \in 1..(Len(ask.res.entities) - 1) :
         /\ ask.res.entities[k].Offset < ask.res.entities[k + 1].Offset
         /\ ask.res.entities[k].Offset + ask.res.entities[k].Length
              <= ask.res.entities[k + 1].Offset
    /\ SubSeq(ask.res.response, Len(ask.res.response) - Len(TipText) + 1,
              Len(ask.res.response)) = TipText

\* An answer of two conversations of one message each: two spans, the
\* second after the first and before the tip.
C28_Witness ==
  /\ Answered
  /\ Len(ask.res.allConversations) = 2
  /\ Len(ask.res.entities) = 2
  /\ ask.res.entities[1].Offset + ask.res.entities[1].Length < ask.res.entities[2].Offset
  /\ ask.res.entities[2].Offset + ask.res.entities[2].Length
       < Len(ask.res.response) - Len(TipText)

\* The line names a retrieved message: its handle and its text.
NamesRetrieved(line) ==
  \E h \in 1..Len(ask.res.messages) :
    \/ line = MessageLine(ask.res.messages[h])
    \/ <<"@">> \o line = MessageLine(ask.res.messages[h])

\* C29: every link span of an answer covers the line '@handle: text' of a
\* message that was retrieved for the question, after its numbering if it
\* has one, and carries the link of that message; a line of the completion
\* model that names no retrieved message is nowhere in the answer text.
C29_OnlyRetrievedRendered ==
  Answered =>
    /\ \A k \in 1..Len(ask.res.entities) :
         \E h \in 1..Len(ask.res.messages) :
           /\ HasSuffix(SpanText(ask.res.response, ask.res.entities[k]),
                        MessageLine(ask.res.messages[h]))
           /\ ask.res.entities[k].URL = MessageURL(ask.res.messages[h])
    /\ \A l \in 1..Len(ask.res.lines) :
         ~NamesRetrieved(ask.res.lines[l]) => ~Contains(ask.res.response, ask.res.lines[l])

\* The completion model returned the line of a retrieved message and a line
\* that names none: the answer has one span.
C29_Witness ==
  /\ Answered
  /\ Len(ask.res.lines) = 2
  /\ \E l \in 1..2 : ask.res.lines[l] = LineGhost
  /\ \E l \in 1..2 : NamesRetrieved(ask.res.lines[l])
  /\ Len(ask.res.entities) = 1

\* The step wrote to the store or to the index.
Wrote == store' # store \/ index' # index

\* C30 (as stated): the store and the index are written only by the
\* handling of a message that is no command and comes from a group or a
\* supergroup, and no update is dequeued while the handling of an earlier
\* one still runs.
C30_IngestionGate ==
  [][/\ Wrote => (/\ last'.op = "live"
                  /\ ~IsCommand(last'.message)
                  /\ IsGroupChat(last'.message.Chat))
     /\ nUpdates' # nUpdates => ~backfill.active]_vars

\* C30 (amended): the store and the index are written only by the handling
\* of a message that is no command and comes from a group or a supergroup,
\* or by the history backfill that a chat-member update has started; the
\* handling of a command, of a private message and of a chat-member update
\* itself writes nothing.
C30_IngestionGateBesideBackfill ==
  [][/\ Wrote => \/ (/\ last'.op = "live"
                     /\ ~IsCommand(last'.message)
                     /\ IsGroupChat(last'.message.Chat))
                 \/ (/\ last'.op = "backfill"
                     /\ backfill.active
                     /\ IsGroupChat(backfill.chat))
     /\ last'.op \in {"command", "private", "chat_member", "backfill_skip"} => ~Wrote]_vars

\* A command of a group was handled while the backfill was running and the
\* store held a document: nothing was written.
C30_Witness ==
  /\ last.op = "command"
  /\ IsCommand(last.message)
  /\ IsGroupChat(last.message.Chat)
  /\ backfill.active
  /\ Len(store) >= 1
  /\ store = last.storeBefore
  /\ index = last.indexBefore

====
